---- MODULE Spec2Model ----
(***************************************************************************)
(* TimeCamp MCP server: the TTL/ETag response cache (SimpleCache), the     *)
(* bounded change log (StateTracker) and the tool / resource handlers that *)
(* compose them with the upstream API (src/src/timecamp_mcp_server/        *)
(* server.py).                                                             *)
(*                                                                         *)
(* Python values are records, so that any two of them can be compared:     *)
(* None is [none |-> TRUE], a stored payload is [v |-> n] or a response    *)
(* record, an etag is [md5 |-> [str |-> value]].                           *)
(***************************************************************************)
EXTENDS Integers, Sequences, FiniteSets, TLC

VARIABLES
    cache,      \* SimpleCache._cache: key -> [value, expiry, etag]
    now,        \* the wall clock, datetime.now(), in ticks
    changes,    \* StateTracker._changes
    call,       \* the last direct call made on the cache or the tracker
    ret,        \* what that call returned
    hist,       \* per key: the last set / invalidate / clear made on it
    appended,   \* number of record_change calls since the last clear
    inv,        \* per invocation of the run: the tool / resource handler it runs
    upTimer,    \* upstream: the task of the running timer, 0 when none runs
    upEntries,  \* upstream: per date, the number of time entries
    token,      \* os.getenv('TIMECAMP_API_TOKEN') is set and not empty
    plain       \* the cache of src/server.py run side by side: key -> [value, expiry]

vars == <<cache, now, changes, call, ret, hist, appended, inv, upTimer, upEntries, token, plain>>
handlerVars == <<inv, upTimer, upEntries>>
driverVars == <<call, ret, hist, appended>>

-----------------------------------------------------------------------------
(* Bounds of the model *)

MaxTime == 2        \* the clock runs from 0 to MaxTime
MaxTTL == 2         \* ttl arguments of direct set calls range over 0..MaxTTL
CACHE_TTL == 2      \* the default ttl (300 s in the source), in ticks

-----------------------------------------------------------------------------
(* Python values *)

None == [none |-> TRUE]

\* str(value): the text the etag is computed from.  The text of a dict lists its
\* items in insertion order, so two equal dicts can have different texts
Str(v) == [str |-> v]

\* a == b for Python values: dicts are equal when they hold the same items, in
\* whatever order they were inserted
PyEq(a, b) ==
    \/ a = b
    \/ "order" \in DOMAIN a /\ "order" \in DOMAIN b /\ a.v = b.v

\* f'"{hashlib.md5(str(value).encode()).hexdigest()}"'
Etag(v) == [md5 |-> Str(v)]

\* an etag argument a caller may pass that is no etag of a stored value
EmptyEtag == [text |-> ""]
OtherEtag == [text |-> "different-etag"]

\* Python truthiness of an optional string: None and "" are falsy
Truthy(x) == x # None /\ x # EmptyEtag

CacheKeys == {"timer", "tasks"}
\* the payloads stored: None, a string, and one dict built in either order of
\* its two items
Values == {None, [v |-> 1], [v |-> 2, order |-> "ab"], [v |-> 2, order |-> "ba"]}
EtagArgs == {None, EmptyEtag, OtherEtag} \cup {Etag(v) : v \in Values}

-----------------------------------------------------------------------------
(* SimpleCache *)

\* a dict without key k
Del(c, k) == [x \in (DOMAIN c) \ {k} |-> c[x]]

\* a dict with c[k] = e
Put(c, k, e) == [x \in (DOMAIN c) \cup {k} |-> IF x = k THEN e ELSE c[x]]

Triple(value, etag, nm) == [value |-> value, etag |-> etag, not_modified |-> nm]

\* the expiry instant itself still counts as live
CacheGet_LateExpiry(c, key, etag, t) ==
    IF key \in DOMAIN c
    THEN IF t <= c[key].expiry
         THEN IF Truthy(etag) /\ etag = c[key].etag
              THEN [cache |-> c, ret |-> Triple(None, c[key].etag, TRUE)]
              ELSE [cache |-> c, ret |-> Triple(c[key].value, c[key].etag, FALSE)]
         ELSE [cache |-> Del(c, key), ret |-> Triple(None, None, FALSE)]
    ELSE [cache |-> c, ret |-> Triple(None, None, FALSE)]

\* the etag argument is ignored
CacheGet_IgnoreEtag(c, key, etag, t) ==
    IF key \in DOMAIN c
    THEN IF t < c[key].expiry
         THEN [cache |-> c, ret |-> Triple(c[key].value, c[key].etag, FALSE)]
         ELSE [cache |-> Del(c, key), ret |-> Triple(None, None, FALSE)]
    ELSE [cache |-> c, ret |-> Triple(None, None, FALSE)]

\* an expired entry is reported absent but stays in the dict
CacheGet_NoPurge(c, key, etag, t) ==
    IF key \in DOMAIN c /\ t < c[key].expiry
    THEN IF Truthy(etag) /\ etag = c[key].etag
         THEN [cache |-> c, ret |-> Triple(None, c[key].etag, TRUE)]
         ELSE [cache |-> c, ret |-> Triple(c[key].value, c[key].etag, FALSE)]
    ELSE [cache |-> c, ret |-> Triple(None, None, FALSE)]

\* SimpleCache.get at clock reading t: the dict afterwards and the triple returned
CacheGet(c, key, etag, t) ==
    IF key \in DOMAIN c
    THEN IF t < c[key].expiry
         THEN IF Truthy(etag) /\ etag = c[key].etag
              THEN [cache |-> c, ret |-> Triple(None, c[key].etag, TRUE)]
              ELSE [cache |-> c, ret |-> Triple(c[key].value, c[key].etag, FALSE)]
         ELSE [cache |-> Del(c, key), ret |-> Triple(None, None, FALSE)]
    ELSE [cache |-> c, ret |-> Triple(None, None, FALSE)]

\* a ttl of 0 is taken for "no ttl given" and replaced by the default
CacheSet_ZeroIsDefault(c, key, value, ttl, t) ==
    [cache |-> Put(c, key, [value |-> value,
                            expiry |-> t + (IF ttl = 0 THEN CACHE_TTL ELSE ttl),
                            etag |-> Etag(value)]),
     ret |-> Etag(value)]

\* SimpleCache.set at clock reading t: the dict afterwards and the etag returned
CacheSet(c, key, value, ttl, t) ==
    [cache |-> Put(c, key, [value |-> value, expiry |-> t + ttl, etag |-> Etag(value)]),
     ret |-> Etag(value)]

\* every entry is dropped, not only that of key
CacheInvalidate_All(c, key) == [x \in {} |-> None]

\* SimpleCache.invalidate
CacheInvalidate(c, key) == IF key \in DOMAIN c THEN Del(c, key) ELSE c

\* only one entry is dropped
CacheClear_One(c) == IF DOMAIN c = {} THEN c ELSE Del(c, CHOOSE k \in DOMAIN c : TRUE)

\* SimpleCache.clear
CacheClear(c) == [x \in {} |-> None]

\* SimpleCache.__init__
EmptyCache == [x \in {} |-> None]

\* the entries of the dict that have not expired at clock reading t
LiveEntries(c, t) == [k \in {x \in DOMAIN c : t < c[x].expiry} |-> c[k]]

-----------------------------------------------------------------------------
(* Argument texts and their validation *)

\* the characters of the argument texts of the model
Chars(s) ==
    CASE s = "2024-01-01" -> <<"2", "0", "2", "4", "-", "0", "1", "-", "0", "1">>
      [] s = "2024-01-02" -> <<"2", "0", "2", "4", "-", "0", "1", "-", "0", "2">>
      [] s = "2024-1-1"   -> <<"2", "0", "2", "4", "-", "1", "-", "1">>
      [] s = "2024-02-30" -> <<"2", "0", "2", "4", "-", "0", "2", "-", "3", "0">>
      [] s = "01/01/2024" -> <<"0", "1", "/", "0", "1", "/", "2", "0", "2", "4">>
      [] s = "2024-02-26" -> <<"2", "0", "2", "4", "-", "0", "2", "-", "2", "6">>
      [] s = "2024-12-29" -> <<"2", "0", "2", "4", "-", "1", "2", "-", "2", "9">>
      [] s = "09:00"      -> <<"0", "9", ":", "0", "0">>
      [] s = "10:30"      -> <<"1", "0", ":", "3", "0">>
      [] s = "9:45"       -> <<"9", ":", "4", "5">>
      [] s = "24:00"      -> <<"2", "4", ":", "0", "0">>
      [] s = "19:30"      -> <<"1", "9", ":", "3", "0">>
      [] s = "1(U+0669):00" -> <<"1", "U+0669", ":", "0", "0">>
      [] OTHER            -> <<>>

\* ord(c) of the characters used; U+0669 is ARABIC-INDIC DIGIT NINE, written
\* here by its code point
Ord ==
    ("-" :> 45) @@ ("/" :> 47) @@ ("0" :> 48) @@ ("1" :> 49) @@ ("2" :> 50) @@ ("3" :> 51)
    @@ ("4" :> 52) @@ ("5" :> 53) @@ ("6" :> 54) @@ ("7" :> 55) @@ ("8" :> 56)
    @@ ("9" :> 57) @@ (":" :> 58) @@ ("U+0669" :> 1641)

\* [0-9] of a pattern
IsAsciiDigit(c) == Ord[c] >= Ord["0"] /\ Ord[c] <= Ord["9"]

\* \d of a pattern over str: any decimal digit of Unicode, of which the model
\* has 0-9 and the Arabic-Indic digits U+0660..U+0669
IsDigit(c) == IsAsciiDigit(c) \/ (Ord[c] >= 1632 /\ Ord[c] <= 1641)

\* the digit's value, as int() reads it
DigitValue(c) == IF IsAsciiDigit(c) THEN Ord[c] - Ord["0"] ELSE Ord[c] - 1632

AllDigits(cs) == \A n \in 1..Len(cs) : IsDigit(cs[n])

\* int(text) of a text of digits
RECURSIVE IntOf(_)
IntOf(cs) ==
    IF cs = <<>> THEN 0
    ELSE 10 * IntOf(SubSeq(cs, 1, Len(cs) - 1)) + DigitValue(cs[Len(cs)])

\* text.split(sep)
RECURSIVE Split(_, _)
Split(cs, sep) ==
    IF \A n \in 1..Len(cs) : cs[n] # sep
    THEN <<cs>>
    ELSE LET n == CHOOSE x \in 1..Len(cs) : cs[x] = sep /\ \A y \in 1..(x - 1) : cs[y] # sep
         IN  <<SubSeq(cs, 1, n - 1)>> \o Split(SubSeq(cs, n + 1, Len(cs)), sep)

\* a <= b for Python strings: lexicographic by code point
RECURSIVE StrLeq(_, _)
StrLeq(a, b) ==
    IF a = <<>> THEN TRUE
    ELSE IF b = <<>> THEN FALSE
    ELSE IF Ord[Head(a)] # Ord[Head(b)] THEN Ord[Head(a)] < Ord[Head(b)]
    ELSE StrLeq(Tail(a), Tail(b))

\* Field(pattern=r'^\d{4}-\d{2}-\d{2}$')
MatchesDatePattern(cs) ==
    /\ Len(cs) = 10
    /\ cs[5] = "-" /\ cs[8] = "-"
    /\ \A n \in {1, 2, 3, 4, 6, 7, 9, 10} : IsDigit(cs[n])

\* Field(pattern=r'^\d{2}:\d{2}$')
MatchesTimePattern(cs) ==
    /\ Len(cs) = 5
    /\ cs[3] = ":"
    /\ \A n \in {1, 2, 4, 5} : IsDigit(cs[n])

\* days of month m of year y
DaysIn(y, m) ==
    IF m = 2
    THEN IF y % 4 = 0 /\ (y % 100 # 0 \/ y % 400 = 0) THEN 29 ELSE 28
    ELSE IF m \in {4, 6, 9, 11} THEN 30 ELSE 31

\* a numeric field of strptime: one or two digits with a value in lo..hi.  The
\* patterns of the fields (%H 2[0-3]|[0-1]\d|\d, %M [0-5]\d|\d,
\* %d 3[0-1]|[1-2]\d|0[1-9]|[1-9], %m 1[0-2]|0[1-9]|[1-9]) take any decimal digit
\* where they say \d and a digit 0-9 elsewhere
NumField(cs, lo, hi) ==
    /\ Len(cs) \in {1, 2}
    /\ AllDigits(cs)
    /\ IntOf(cs) >= lo /\ IntOf(cs) <= hi
    /\ Len(cs) = 1 => (lo = 0 \/ IsAsciiDigit(cs[1]))
    /\ Len(cs) = 2 =>
          /\ IsAsciiDigit(cs[1])
          /\ \/ IsAsciiDigit(cs[2])
             \/ /\ DigitValue(cs[1]) < hi \div 10 \/ hi % 10 = 9
                /\ lo = 0 \/ DigitValue(cs[1]) # 0

\* datetime.strptime(text, "%Y-%m-%d") succeeds: %Y takes four digits, %m and
\* %d one or two
StrptimeDateOk(cs) ==
    LET f == Split(cs, "-") IN
    /\ Len(f) = 3
    /\ Len(f[1]) = 4 /\ AllDigits(f[1])
    /\ NumField(f[2], 1, 12)
    /\ NumField(f[3], 1, 31)
    /\ IntOf(f[3]) <= DaysIn(IntOf(f[1]), IntOf(f[2]))

\* the date strptime returns
StrptimeDate(cs) ==
    LET f == Split(cs, "-") IN <<IntOf(f[1]), IntOf(f[2]), IntOf(f[3])>>

\* the "%H:%M" part of datetime.strptime(text, "%Y-%m-%d %H:%M") succeeds
StrptimeTimeOk(cs) ==
    LET f == Split(cs, ":") IN
    /\ Len(f) = 2
    /\ NumField(f[1], 0, 23)
    /\ NumField(f[2], 0, 59)

\* the hour and minute that the "%H:%M" part of strptime returns, in minutes
\* since midnight
StrptimeTime(cs) ==
    LET f == Split(cs, ":") IN 60 * IntOf(f[1]) + IntOf(f[2])

\* int((end_dt - start_dt).total_seconds()) of two times of one date
DurationSeconds(start, finish) ==
    60 * (StrptimeTime(Chars(finish)) - StrptimeTime(Chars(start)))

\* Field(max_length=1000) of the note
MaxNoteLength == 1000

\* StartTimerRequest(task_id, note) is accepted; the note is given by its length
StartTimerRequestOk(task_id, note) == task_id > 0 /\ note <= MaxNoteLength

\* CreateTimeEntryRequest(...) is accepted: the field constraints, and
\* validate_end_after_start, which runs when end_time matched its pattern and
\* compares with start_time when that one was accepted
CreateTimeEntryRequestOk(task_id, date, start, finish, note) ==
    /\ task_id > 0
    /\ MatchesDatePattern(Chars(date))
    /\ MatchesTimePattern(Chars(start))
    /\ MatchesTimePattern(Chars(finish))
    /\ ~StrLeq(Chars(finish), Chars(start))
    /\ note <= MaxNoteLength

-----------------------------------------------------------------------------
(* Invocations *)

Procs == {1, 2}
Dates == {"2024-01-01", "2024-01-02"}

\* an invocation that has not been called yet.  pre is the cache as it was when
\* the invocation was called (its live entries), reqs the requests it has issued
Idle ==
    [op |-> "idle", pc |-> "idle", task |-> 0, date |-> "", start |-> "", finish |-> "",
     note |-> 0, stage |-> "", req |-> "",
     resp |-> None, todo |-> <<>>, loc |-> None, pre |-> <<>>, reqs |-> {},
     result |-> None]

-----------------------------------------------------------------------------
(* Direct calls on a SimpleCache, as its unit tests make them *)

NoCall == [op |-> "none"]
Never == [state |-> "never"]

\* the state after the module is imported: cache = SimpleCache(),
\* state_tracker = StateTracker(), no invocation running
Init ==
    /\ cache = EmptyCache
    /\ now = 0
    /\ changes = <<>>
    /\ call = NoCall
    /\ ret = None
    /\ hist = [k \in CacheKeys |-> Never]
    /\ appended = 0
    /\ inv = [p \in Procs |-> Idle]
    /\ upTimer = 0
    /\ upEntries = [d \in Dates |-> 0]
    /\ token = TRUE
    /\ plain = EmptyCache

Tick ==
    /\ now < MaxTime
    /\ now' = now + 1
    /\ call' = [op |-> "tick"]
    /\ UNCHANGED <<cache, changes, ret, hist, appended, inv, upTimer, upEntries, token, plain>>

DoSet(k, v, ttl) ==
    LET r == CacheSet(cache, k, v, ttl, now) IN
    /\ cache' = r.cache
    /\ ret' = r.ret
    /\ call' = [op |-> "set", key |-> k, value |-> v, ttl |-> ttl]
    /\ hist' = [hist EXCEPT ![k] =
                  [state |-> "set", value |-> v, at |-> now, ttl |-> ttl, etag |-> r.ret]]
    /\ UNCHANGED <<now, changes, appended, inv, upTimer, upEntries, token, plain>>

DoGet(k, e) ==
    LET r == CacheGet(cache, k, e, now) IN
    /\ cache' = r.cache
    /\ ret' = r.ret
    /\ call' = [op |-> "get", key |-> k, etag |-> e]
    /\ UNCHANGED <<now, changes, hist, appended, inv, upTimer, upEntries, token, plain>>

DoInvalidate(k) ==
    /\ cache' = CacheInvalidate(cache, k)
    /\ ret' = None
    /\ call' = [op |-> "invalidate", key |-> k]
    /\ hist' = [hist EXCEPT ![k] = [state |-> "invalidated"]]
    /\ UNCHANGED <<now, changes, appended, inv, upTimer, upEntries, token, plain>>

DoClear ==
    /\ cache' = CacheClear(cache)
    /\ ret' = None
    /\ call' = [op |-> "clear"]
    /\ hist' = [k \in CacheKeys |-> [state |-> "cleared"]]
    /\ UNCHANGED <<now, changes, appended, inv, upTimer, upEntries, token, plain>>

NextCache ==
    \/ Tick
    \/ \E k \in CacheKeys, v \in Values, ttl \in (0..MaxTTL) \cup {CACHE_TTL} : DoSet(k, v, ttl)
    \/ \E k \in CacheKeys, e \in EtagArgs : DoGet(k, e)
    \/ \E k \in CacheKeys : DoInvalidate(k)
    \/ DoClear

SpecCache == Init /\ [][NextCache]_vars

-----------------------------------------------------------------------------
(* StateTracker *)

\* datetime.isoformat() and datetime.fromisoformat(): a text form of a clock
\* reading and its parse
IsoFormat(t) == [iso |-> t]
FromIsoFormat(s) == s.iso

\* a datetime object handed to get_changes_since
DateTime(t) == [dt |-> t]

\* Python's list[-n:] : the last n elements, the whole list when n = 0 or n >= len
LastN(L, n) ==
    IF n = 0 \/ n >= Len(L) THEN L ELSE SubSeq(L, Len(L) - n + 1, Len(L))

\* Python's list[:n]
FirstN(L, n) == IF n >= Len(L) THEN L ELSE SubSeq(L, 1, n)

\* StateTracker._max_changes (100 in the source; the unit test lowers it to 5)
max_changes == 3

RecordChange_KeepOldest(L, change_type, details, t) ==
    LET L2 == Append(L, [type |-> change_type, timestamp |-> IsoFormat(t), details |-> details])
    IN IF Len(L2) > max_changes THEN FirstN(L2, max_changes) ELSE L2

\* the new record is put in front of the log
RecordChange_Prepend(L, change_type, details, t) ==
    LET L2 == <<[type |-> change_type, timestamp |-> IsoFormat(t), details |-> details]>> \o L
    IN IF Len(L2) > max_changes THEN LastN(L2, max_changes) ELSE L2

\* StateTracker.record_change at clock reading t
RecordChange(L, change_type, details, t) ==
    LET L2 == Append(L, [type |-> change_type, timestamp |-> IsoFormat(t), details |-> details])
    IN IF Len(L2) > max_changes THEN LastN(L2, max_changes) ELSE L2

GetChangesSince_Inclusive(L, timestamp) ==
    IF timestamp = None
    THEN L
    ELSE SelectSeq(L, LAMBDA c : FromIsoFormat(c.timestamp) >= timestamp.dt)

\* StateTracker.get_changes_since
GetChangesSince(L, timestamp) ==
    IF timestamp = None
    THEN L
    ELSE SelectSeq(L, LAMBDA c : FromIsoFormat(c.timestamp) > timestamp.dt)

\* StateTracker.clear
TrackerClear(L) == <<>>

-----------------------------------------------------------------------------
(* Direct calls on a StateTracker, as its unit tests make them *)

MaxAppends == 5     \* record_change calls between two clears
LogTypes == {"timer_started", "timer_stopped"}
SinceArgs == {None} \cup {DateTime(t) : t \in 0..MaxTime}

DoRecord(ty) ==
    /\ appended < MaxAppends
    /\ appended' = appended + 1
    /\ changes' = RecordChange(changes, ty, [index |-> appended + 1], now)
    /\ call' = [op |-> "record_change", type |-> ty]
    /\ ret' = None
    /\ UNCHANGED <<cache, now, hist, inv, upTimer, upEntries, token, plain>>

DoGetChanges(ts) ==
    /\ ret' = GetChangesSince(changes, ts)
    /\ call' = [op |-> "get_changes_since", timestamp |-> ts]
    /\ UNCHANGED <<cache, now, changes, hist, appended, inv, upTimer, upEntries, token, plain>>

DoClearLog ==
    /\ changes' = TrackerClear(changes)
    /\ appended' = 0
    /\ call' = [op |-> "clear"]
    /\ ret' = None
    /\ UNCHANGED <<cache, now, hist, inv, upTimer, upEntries, token, plain>>

NextLog ==
    \/ Tick
    \/ \E ty \in LogTypes : DoRecord(ty)
    \/ \E ts \in SinceArgs : DoGetChanges(ts)
    \/ DoClearLog

SpecLog == Init /\ [][NextLog]_vars

-----------------------------------------------------------------------------
(* The tool and resource handlers.  An invocation runs as a task of the      *)
(* event loop: it is suspended only while a request to the upstream API is   *)
(* in flight (pc = "sent": issued; pc = "served": upstream has answered), and *)
(* the code between two suspensions runs as one step.                        *)

Tasks == {1, 2}     \* task ids
DayLen == 2         \* ticks per calendar day
TIMER_TTL == 1      \* ttl of the timer entry (60 s in the source), in ticks

\* datetime.now().strftime("%Y-%m-%d") at clock reading t
Today(t) == IF t < DayLen THEN "2024-01-01" ELSE "2024-01-02"

\* f"time-entries/{date}"
TimeEntriesKey(date) == "time-entries/" \o date

MutatingOps == {"start_timer", "stop_timer", "create_time_entry"}

\* the handlers that run get_time_entries_resource: the resource itself and
\* daily_standup_prompt
EntriesOps == {"time_entries", "daily_standup"}

\* ToolError(message)
ToolError(msg) == [error |-> "ToolError", message |-> msg]

\* the ToolError that get_api_token raises when the token is not set
MissingToken == ToolError("TIMECAMP_API_TOKEN environment variable not set")

\* the ToolError that TimeCampClient.request raises for a failed request
RequestFailed == ToolError("request failed")

\* what a step of a handler leaves behind: the cache, the change log and the
\* invocation
Out(c, L, i) == [cache |-> c, changes |-> L, inv |-> i]

\* await client.request(...): the request is issued and the invocation suspended
Send(i, req, stage) ==
    [i EXCEPT !.pc = "sent", !.req = req, !.stage = stage, !.resp = None,
              !.reqs = @ \cup {req}]

\* the invocation ends with an exception that reaches the caller;
\* daily_standup_prompt catches every exception and returns a text instead
Raise(i, err) ==
    [Idle EXCEPT !.op = i.op, !.pc = "done", !.task = i.task, !.date = i.date,
                 !.pre = i.pre, !.reqs = i.reqs,
                 !.result = IF i.op = "daily_standup"
                            THEN [ok |-> TRUE,
                                  value |-> [text |-> "Error generating standup", cause |-> err]]
                            ELSE err]

\* the invocation ends and returns value
Return(i, value) ==
    [Idle EXCEPT !.op = i.op, !.pc = "done", !.task = i.task, !.date = i.date,
                 !.pre = i.pre, !.reqs = i.reqs, !.result = [ok |-> TRUE, value |-> value]]

\* the request a read-through of key k issues on a miss
FetchRequest(k) ==
    IF k = "timer" THEN "GET timer_running"
    ELSE IF k = "tasks" THEN "GET tasks" ELSE "GET projects"

\* the timer status is stored with the default ttl as well
TtlOf_Default(k) == CACHE_TTL

\* the ttl a read-through stores key k with
TtlOf(k) == IF k = "timer" THEN TIMER_TTL ELSE CACHE_TTL

\* the cached value is never used: every read fetches
IsHit_Never(k, value) == FALSE

\* `if cached_value is not None` (get_cached_projects, get_cached_tasks) and
\* `if cached_value:` (get_timer_resource, get_time_entries_resource): the
\* cached values are lists and response objects
IsHit(k, value) == value # None

\* datetime.fromisoformat(started_at.replace('Z', '+00:00')) is offset-aware when
\* started_at carries a zone, and datetime.now() - started then raises TypeError
ElapsedRaises(timer) == timer.started_at = "aware"

\* the value a read-through of key k builds from the response body
ValueOf(k, body) ==
    IF k = "timer"
    THEN IF body.running
         THEN [is_running |-> TRUE, task_id |-> body.task]
         ELSE [is_running |-> FALSE]
    ELSE [list |-> body.items]

\* the values the invocation has read so far, with that of key k
Keep(i, k, value) ==
    IF k = "timer" /\ i.op \in EntriesOps
    THEN [i EXCEPT !.loc = [entries |-> i.loc.entries, timer |-> value]]
    ELSE IF i.op = "timer" THEN [i EXCEPT !.loc = value] ELSE i

\* the DailySummaryResponse built from the entries and the timer status read
DailySummary(i) ==
    [date |-> i.date, entry_count |-> i.loc.entries,
     is_timer_running |-> IF i.loc.timer = None THEN FALSE ELSE i.loc.timer.is_running]

\* the text daily_standup_prompt builds from the summary of its date
Standup(i, response) ==
    IF response.entry_count = 0
    THEN [text |-> "No time entries recorded", date |-> i.date]
    ELSE [text |-> "Daily Standup", summary |-> response]

\* TimerResponse(timer_id: int) and TimeEntryResponse(entry_id: int): building
\* the response raises a ValidationError when upstream's answer carries no id
NoId == [empty |-> TRUE]
WithId == [id |-> 1]

\* start_timer and stop_timer forget today's time entries
InvalidatedKeys_TimerOnly(i, t) ==
    IF i.op = "create_time_entry"
    THEN <<TimeEntriesKey(i.date)>>
    ELSE <<"timer">>

\* create_time_entry invalidates the timer entry as well
InvalidatedKeys_AlsoTimer(i, t) ==
    IF i.op = "create_time_entry"
    THEN <<TimeEntriesKey(i.date), "timer">>
    ELSE <<"timer", TimeEntriesKey(Today(t))>>

\* every mutating tool invalidates the task list as well
InvalidatedKeys_AlsoTasks(i, t) ==
    IF i.op = "create_time_entry"
    THEN <<TimeEntriesKey(i.date), "tasks">>
    ELSE <<"timer", TimeEntriesKey(Today(t)), "tasks">>

\* the keys a mutating tool invalidates, in the order it does
InvalidatedKeys(i, t) ==
    IF i.op = "create_time_entry"
    THEN <<TimeEntriesKey(i.date)>>
    ELSE <<"timer", TimeEntriesKey(Today(t))>>

\* only the first of the keys is invalidated
InvalidateAll_First(c, keys) ==
    IF keys = <<>> THEN c ELSE CacheInvalidate(c, Head(keys))

\* cache.invalidate(k) for each k of keys
RECURSIVE InvalidateAll(_, _)
InvalidateAll(c, keys) ==
    IF keys = <<>> THEN c ELSE InvalidateAll(CacheInvalidate(c, Head(keys)), Tail(keys))

\* the time-entries resource forgets the timer status once its summary is built
Finish_SummaryInvalidates(c, L, i, t) ==
    IF i.op = "start_timer"
    THEN LET c2 == InvalidateAll(c, InvalidatedKeys(i, t))
             L2 == RecordChange(L, "timer_started", [task_id |-> i.task], t)
         IN  IF i.loc = NoId
             THEN Out(c2, L2, Raise(i, [error |-> "ValidationError"]))
             ELSE Out(c2, L2, Return(i, [message |-> "Timer started", task_id |-> i.task]))
    ELSE IF i.op = "stop_timer"
    THEN LET c2 == InvalidateAll(c, InvalidatedKeys(i, t))
             L2 == RecordChange(L, "timer_stopped", [task_id |-> i.loc.task], t)
         IN  Out(c2, L2, Return(i, [message |-> "Timer stopped", task_id |-> i.loc.task]))
    ELSE IF i.op = "create_time_entry"
    THEN LET c2 == InvalidateAll(c, InvalidatedKeys(i, t))
             L2 == RecordChange(L, "time_entry_created",
                                [task_id |-> i.task, date |-> i.date], t)
         IN  IF i.loc = NoId
             THEN Out(c2, L2, Raise(i, [error |-> "ValidationError"]))
             ELSE Out(c2, L2, Return(i, [task_id |-> i.task, date |-> i.date]))
    ELSE IF i.op \in EntriesOps
    THEN LET response == DailySummary(i)
         IN  Out(CacheInvalidate(CacheSet(c, TimeEntriesKey(i.date), response, CACHE_TTL, t).cache,
                                 "timer"), L,
                 Return(i, IF i.op = "daily_standup" THEN Standup(i, response) ELSE response))
    ELSE IF i.op = "timer"
    THEN Out(c, L, Return(i, i.loc))
    ELSE Out(c, L, Return(i, [op |-> i.op]))

\* the tail of a handler, after its last read-through
Finish(c, L, i, t) ==
    IF i.op = "start_timer"
    THEN LET c2 == InvalidateAll(c, InvalidatedKeys(i, t))
             L2 == RecordChange(L, "timer_started", [task_id |-> i.task], t)
         IN  IF i.loc = NoId
             THEN Out(c2, L2, Raise(i, [error |-> "ValidationError"]))
             ELSE Out(c2, L2, Return(i, [message |-> "Timer started", task_id |-> i.task]))
    ELSE IF i.op = "stop_timer"
    THEN LET c2 == InvalidateAll(c, InvalidatedKeys(i, t))
             L2 == RecordChange(L, "timer_stopped", [task_id |-> i.loc.task], t)
         IN  Out(c2, L2, Return(i, [message |-> "Timer stopped", task_id |-> i.loc.task]))
    ELSE IF i.op = "create_time_entry"
    THEN LET c2 == InvalidateAll(c, InvalidatedKeys(i, t))
             L2 == RecordChange(L, "time_entry_created",
                                [task_id |-> i.task, date |-> i.date], t)
         IN  IF i.loc = NoId
             THEN Out(c2, L2, Raise(i, [error |-> "ValidationError"]))
             ELSE Out(c2, L2, Return(i, [task_id |-> i.task, date |-> i.date]))
    ELSE IF i.op \in EntriesOps
    THEN LET response == DailySummary(i)
         IN  Out(CacheSet(c, TimeEntriesKey(i.date), response, CACHE_TTL, t).cache, L,
                 Return(i, IF i.op = "daily_standup" THEN Standup(i, response) ELSE response))
    ELSE IF i.op = "timer"
    THEN Out(c, L, Return(i, i.loc))
    ELSE Out(c, L, Return(i, [op |-> i.op]))

\* the read-throughs of i.todo in turn (get_cached_tasks, get_cached_projects,
\* get_timer_resource), up to the first miss, which issues its request and
\* suspends; then the tail of the handler.  get_timer_resource reads the api
\* token after its miss, the other two use the client of their caller
RECURSIVE RunLookups(_, _, _, _)
RunLookups(c, L, i, t) ==
    IF i.todo = <<>>
    THEN Finish(c, L, i, t)
    ELSE LET k == Head(i.todo)
             g == CacheGet(c, k, None, t)
         IN  IF IsHit(k, g.ret.value)
             THEN RunLookups(g.cache, L, [Keep(i, k, g.ret.value) EXCEPT !.todo = Tail(@)], t)
             ELSE IF k = "timer" /\ ~token
             THEN Out(g.cache, L, Raise(i, MissingToken))
             ELSE Out(g.cache, L, Send(i, FetchRequest(k), "lookup"))

\* start_timer trusts a cached timer status that says no timer is running
Begin_CachedCheck(c, L, i, t) ==
    IF i.op = "start_timer" /\ CacheGet(c, "timer", None, t).ret.value = [is_running |-> FALSE]
    THEN Out(c, L, Send(i, "POST timer", "write"))
    ELSE IF i.op = "start_timer" /\ ~StartTimerRequestOk(i.task, i.note)
    THEN Out(c, L, Raise(i, ToolError("Invalid input")))
    ELSE IF i.op \in {"start_timer", "stop_timer"}
    THEN IF ~token
         THEN Out(c, L, Raise(i, MissingToken))
         ELSE Out(c, L, Send(i, "GET timer_running", "check"))
    ELSE IF i.op = "create_time_entry"
    THEN IF ~CreateTimeEntryRequestOk(i.task, i.date, i.start, i.finish, i.note)
         THEN Out(c, L, Raise(i, ToolError("Invalid input")))
         ELSE IF ~token
         THEN Out(c, L, Raise(i, MissingToken))
         ELSE IF ~(/\ StrptimeDateOk(Chars(i.date))
                   /\ StrptimeTimeOk(Chars(i.start))
                   /\ StrptimeTimeOk(Chars(i.finish)))
         THEN Out(c, L, Raise(i, ToolError("Invalid date/time format")))
         ELSE Out(c, L, Send([i EXCEPT !.loc = [duration |-> DurationSeconds(i.start, i.finish)]],
                             "POST time_entries", "write"))
    ELSE IF i.op \in EntriesOps
    THEN LET g == CacheGet(c, TimeEntriesKey(i.date), None, t)
         IN  IF IsHit("time-entries", g.ret.value)
             THEN Out(g.cache, L,
                      Return(i, IF i.op = "daily_standup"
                                THEN Standup(i, g.ret.value) ELSE g.ret.value))
             ELSE IF ~token
             THEN Out(g.cache, L, Raise(i, MissingToken))
             ELSE IF ~StrptimeDateOk(Chars(i.date))
             THEN Out(g.cache, L, Raise(i, ToolError("Invalid date format. Use YYYY-MM-DD")))
             ELSE Out(g.cache, L, Send(i, "GET time_entries", "entries"))
    ELSE IF i.op = "timer"
    THEN RunLookups(c, L, [i EXCEPT !.todo = <<"timer">>], t)
    ELSE IF ~token
    THEN Out(c, L, Raise(i, MissingToken))
    ELSE IF i.op = "tasks"
    THEN RunLookups(c, L, [i EXCEPT !.todo = <<"tasks", "projects">>], t)
    ELSE RunLookups(c, L, [i EXCEPT !.todo = <<"projects", "tasks">>], t)

\* a handler from its call to its first suspension (or its end); get_api_token
\* reads the environment where the handler calls it
Begin(c, L, i, t) ==
    IF i.op = "start_timer" /\ ~StartTimerRequestOk(i.task, i.note)
    THEN Out(c, L, Raise(i, ToolError("Invalid input")))
    ELSE IF i.op \in {"start_timer", "stop_timer"}
    THEN IF ~token
         THEN Out(c, L, Raise(i, MissingToken))
         ELSE Out(c, L, Send(i, "GET timer_running", "check"))
    ELSE IF i.op = "create_time_entry"
    THEN IF ~CreateTimeEntryRequestOk(i.task, i.date, i.start, i.finish, i.note)
         THEN Out(c, L, Raise(i, ToolError("Invalid input")))
         ELSE IF ~token
         THEN Out(c, L, Raise(i, MissingToken))
         ELSE IF ~(/\ StrptimeDateOk(Chars(i.date))
                   /\ StrptimeTimeOk(Chars(i.start))
                   /\ StrptimeTimeOk(Chars(i.finish)))
         THEN Out(c, L, Raise(i, ToolError("Invalid date/time format")))
         ELSE Out(c, L, Send([i EXCEPT !.loc = [duration |-> DurationSeconds(i.start, i.finish)]],
                             "POST time_entries", "write"))
    ELSE IF i.op \in EntriesOps
    THEN LET g == CacheGet(c, TimeEntriesKey(i.date), None, t)
         IN  IF IsHit("time-entries", g.ret.value)
             THEN Out(g.cache, L,
                      Return(i, IF i.op = "daily_standup"
                                THEN Standup(i, g.ret.value) ELSE g.ret.value))
             ELSE IF ~token
             THEN Out(g.cache, L, Raise(i, MissingToken))
             ELSE IF ~StrptimeDateOk(Chars(i.date))
             THEN Out(g.cache, L, Raise(i, ToolError("Invalid date format. Use YYYY-MM-DD")))
             ELSE Out(g.cache, L, Send(i, "GET time_entries", "entries"))
    ELSE IF i.op = "timer"
    THEN RunLookups(c, L, [i EXCEPT !.todo = <<"timer">>], t)
    ELSE IF ~token
    THEN Out(c, L, Raise(i, MissingToken))
    ELSE IF i.op = "tasks"
    THEN RunLookups(c, L, [i EXCEPT !.todo = <<"tasks", "projects">>], t)
    ELSE RunLookups(c, L, [i EXCEPT !.todo = <<"projects", "tasks">>], t)

\* start_timer goes on to its write although a timer is running
AfterCheck_NoReject(c, L, i, t) ==
    IF ~i.resp.ok
    THEN Out(c, L, Raise(i, RequestFailed))
    ELSE IF i.op = "start_timer"
    THEN Out(c, L, Send(i, "POST timer", "write"))
    ELSE IF ~i.resp.body.running
         THEN Out(c, L, Raise(i, ToolError("No timer is currently running")))
         ELSE Out(c, L, Send([i EXCEPT !.loc = i.resp.body], "PUT timer", "write"))

\* stop_timer invalidates its keys before it finds that no timer is running
AfterCheck_InvalidateFirst(c, L, i, t) ==
    IF ~i.resp.ok
    THEN Out(c, L, Raise(i, RequestFailed))
    ELSE IF i.op = "start_timer"
    THEN IF i.resp.body.running
         THEN Out(c, L, Raise(i, [error |-> "ToolError", message |-> "Timer already running",
                                  task |-> i.resp.body.task]))
         ELSE Out(c, L, Send(i, "POST timer", "write"))
    ELSE IF ~i.resp.body.running
         THEN Out(InvalidateAll(c, InvalidatedKeys(i, t)), L,
                  Raise(i, ToolError("No timer is currently running")))
         ELSE Out(c, L, Send([i EXCEPT !.loc = i.resp.body], "PUT timer", "write"))

\* start_timer holds back while another invocation has a POST timer under way
AfterCheck_Locked(c, L, i, t) ==
    IF ~i.resp.ok
    THEN Out(c, L, Raise(i, RequestFailed))
    ELSE IF i.op = "start_timer"
    THEN IF i.resp.body.running
         THEN Out(c, L, Raise(i, [error |-> "ToolError", message |-> "Timer already running",
                                  task |-> i.resp.body.task]))
         ELSE IF \E q \in Procs : inv[q].pc \in {"sent", "served"} /\ inv[q].req = "POST timer"
         THEN Out(c, L, Raise(i, ToolError("Timer is being started")))
         ELSE Out(c, L, Send(i, "POST timer", "write"))
    ELSE IF ~i.resp.body.running
         THEN Out(c, L, Raise(i, ToolError("No timer is currently running")))
         ELSE Out(c, L, Send([i EXCEPT !.loc = i.resp.body], "PUT timer", "write"))

\* start_timer and stop_timer once GET timer_running has answered
AfterCheck(c, L, i, t) ==
    IF ~i.resp.ok
    THEN Out(c, L, Raise(i, RequestFailed))
    ELSE IF i.op = "start_timer"
    THEN IF i.resp.body.running
         THEN Out(c, L, Raise(i, [error |-> "ToolError", message |-> "Timer already running",
                                  task |-> i.resp.body.task]))
         ELSE Out(c, L, Send(i, "POST timer", "write"))
    ELSE IF ~i.resp.body.running
         THEN Out(c, L, Raise(i, ToolError("No timer is currently running")))
         ELSE Out(c, L, Send([i EXCEPT !.loc = i.resp.body], "PUT timer", "write"))

\* the keys are invalidated before the failure of the write is raised
AfterWrite_InvalidateFirst(c, L, i, t) ==
    IF ~i.resp.ok
    THEN Out(InvalidateAll(c, InvalidatedKeys(i, t)), L, Raise(i, RequestFailed))
    ELSE IF i.op = "start_timer"
    THEN RunLookups(c, L, [i EXCEPT !.loc = i.resp.body, !.todo = <<"tasks">>], t)
    ELSE IF i.op = "stop_timer"
    THEN IF ElapsedRaises(i.loc)
         THEN Out(c, L, Raise(i, [error |-> "TypeError"]))
         ELSE Finish(c, L, i, t)
    ELSE RunLookups(c, L, [i EXCEPT !.loc = i.resp.body, !.todo = <<"tasks", "projects">>], t)

\* a mutating tool once its write (POST timer, PUT timer, POST time_entries) has
\* answered
AfterWrite(c, L, i, t) ==
    IF ~i.resp.ok
    THEN Out(c, L, Raise(i, RequestFailed))
    ELSE IF i.op = "start_timer"
    THEN RunLookups(c, L, [i EXCEPT !.loc = i.resp.body, !.todo = <<"tasks">>], t)
    ELSE IF i.op = "stop_timer"
    THEN IF ElapsedRaises(i.loc)
         THEN Out(c, L, Raise(i, [error |-> "TypeError"]))
         ELSE Finish(c, L, i, t)
    ELSE RunLookups(c, L, [i EXCEPT !.loc = i.resp.body, !.todo = <<"tasks", "projects">>], t)

\* get_time_entries_resource once GET time_entries has answered
AfterEntries(c, L, i, t) ==
    IF ~i.resp.ok
    THEN Out(c, L, Raise(i, RequestFailed))
    ELSE RunLookups(c, L,
           [i EXCEPT !.loc = [entries |-> i.resp.body.count, timer |-> None],
                     !.todo = (IF i.date = Today(t) THEN <<"timer">> ELSE <<>>)
                                 \o <<"tasks", "projects">>], t)

\* a fetch that failed is issued once more
AfterLookup_Retry(c, L, i, t) ==
    LET k == Head(i.todo) IN
    IF ~i.resp.ok
    THEN Out(c, L, Send(i, i.req, "lookup"))
    ELSE IF k = "timer" /\ i.resp.body.running /\ ElapsedRaises(i.resp.body)
    THEN Out(c, L, Raise(i, [error |-> "TypeError"]))
    ELSE LET value == ValueOf(k, i.resp.body)
             c2 == CacheSet(c, k, value, TtlOf(k), t).cache
         IN  RunLookups(c2, L, [Keep(i, k, value) EXCEPT !.todo = Tail(@)], t)

\* a failed fetch is stored as an empty value
AfterLookup_StoresFailure(c, L, i, t) ==
    LET k == Head(i.todo) IN
    IF ~i.resp.ok
    THEN Out(CacheSet(c, k, [list |-> "none"], TtlOf(k), t).cache, L, Raise(i, RequestFailed))
    ELSE IF k = "timer" /\ i.resp.body.running /\ ElapsedRaises(i.resp.body)
    THEN Out(c, L, Raise(i, [error |-> "TypeError"]))
    ELSE LET value == ValueOf(k, i.resp.body)
             c2 == CacheSet(c, k, value, TtlOf(k), t).cache
         IN  RunLookups(c2, L, [Keep(i, k, value) EXCEPT !.todo = Tail(@)], t)

\* a read-through once its fetch has answered: the value is stored and returned
AfterLookup(c, L, i, t) ==
    LET k == Head(i.todo) IN
    IF ~i.resp.ok
    THEN Out(c, L, Raise(i, RequestFailed))
    ELSE IF k = "timer" /\ i.resp.body.running /\ ElapsedRaises(i.resp.body)
    THEN Out(c, L, Raise(i, [error |-> "TypeError"]))
    ELSE LET value == ValueOf(k, i.resp.body)
             c2 == CacheSet(c, k, value, TtlOf(k), t).cache
         IN  RunLookups(c2, L, [Keep(i, k, value) EXCEPT !.todo = Tail(@)], t)

\* the code that runs when the awaited response arrives
Continue(c, L, i, t) ==
    IF i.stage = "check" THEN AfterCheck(c, L, i, t)
    ELSE IF i.stage = "write" THEN AfterWrite(c, L, i, t)
    ELSE IF i.stage = "entries" THEN AfterEntries(c, L, i, t)
    ELSE AfterLookup(c, L, i, t)

-----------------------------------------------------------------------------
(* The upstream API *)

StartedAtForms == {"absent", "naive", "aware"}

\* the number of upstream entries on the calendar date that text names
EntriesOn(text) ==
    LET same == {d \in Dates : StrptimeDate(Chars(d)) = StrptimeDate(Chars(text))}
    IN  IF same = {} THEN 0 ELSE upEntries[CHOOSE d \in same : TRUE]

\* the bodies upstream may answer request i.req with
Bodies(i) ==
    IF i.req = "GET timer_running"
    THEN IF upTimer = 0
         THEN {[running |-> FALSE]}
         ELSE {[running |-> TRUE, task |-> upTimer, started_at |-> f] : f \in StartedAtForms}
    ELSE IF i.req = "GET time_entries" THEN {[count |-> EntriesOn(i.date)]}
    ELSE IF i.req = "GET tasks" THEN {[items |-> "tasks"]}
    ELSE IF i.req = "GET projects" THEN {[items |-> "projects"]}
    ELSE IF i.req = "PUT timer" THEN {NoId}
    ELSE {WithId, NoId}

-----------------------------------------------------------------------------
(* Actions *)

\* the clock advances
Clock ==
    /\ now < MaxTime
    /\ now' = now + 1
    /\ UNCHANGED <<cache, changes, driverVars, handlerVars, token, plain>>

\* invocation p is called with the given arguments (the note by its length) and
\* runs handler op up to its first suspension; the invocations are numbered in
\* the order of their calls
Call(p, op, task, date, start, finish, note) ==
    /\ inv[p].pc = "idle"
    /\ \A q \in Procs : q < p => inv[q].pc # "idle"
    /\ LET o == Begin(cache, changes,
                      [Idle EXCEPT !.op = op, !.task = task,
                                   !.date = IF op = "daily_standup" /\ date = ""
                                            THEN Today(now) ELSE date,
                                   !.start = start, !.finish = finish, !.note = note,
                                   !.pre = LiveEntries(cache, now)], now)
       IN  /\ cache' = o.cache
           /\ changes' = o.changes
           /\ inv' = [inv EXCEPT ![p] = o.inv]
    /\ UNCHANGED <<now, driverVars, upTimer, upEntries, token, plain>>

\* a call with well-formed arguments
Invoke(p, op, task, date) == Call(p, op, task, date, "09:00", "10:30", 0)

\* upstream answers the request of p with an error, or the connection fails
ServeError(p) ==
    /\ inv[p].pc = "sent"
    /\ inv' = [inv EXCEPT ![p].pc = "served", ![p].resp = [ok |-> FALSE]]
    /\ UNCHANGED <<cache, now, changes, driverVars, upTimer, upEntries, token, plain>>

\* upstream carries out the request of p and answers it
Serve(p) ==
    /\ inv[p].pc = "sent"
    /\ \E body \in Bodies(inv[p]) :
          inv' = [inv EXCEPT ![p].pc = "served", ![p].resp = [ok |-> TRUE, body |-> body]]
    /\ upTimer' = IF inv[p].req = "POST timer" THEN inv[p].task
                  ELSE IF inv[p].req = "PUT timer" THEN 0 ELSE upTimer
    /\ upEntries' = IF inv[p].req = "POST time_entries"
                    THEN [upEntries EXCEPT ![inv[p].date] = @ + 1]
                    ELSE upEntries
    /\ UNCHANGED <<cache, now, changes, driverVars, token, plain>>

\* the response reaches p, which runs up to its next suspension
Resume(p) ==
    /\ inv[p].pc = "served"
    /\ LET o == Continue(cache, changes, inv[p], now)
       IN  /\ cache' = o.cache
           /\ changes' = o.changes
           /\ inv' = [inv EXCEPT ![p] = o.inv]
    /\ UNCHANGED <<now, driverVars, upTimer, upEntries, token, plain>>

Next ==
    \/ Clock
    \/ \E p \in Procs, task \in Tasks : Invoke(p, "start_timer", task, "")
    \/ \E p \in Procs : Invoke(p, "stop_timer", 0, "")
    \/ \E p \in Procs, task \in Tasks, date \in Dates : Invoke(p, "create_time_entry", task, date)
    \/ \E p \in Procs, date \in Dates : Invoke(p, "time_entries", 0, date)
    \/ \E p \in Procs, date \in Dates \cup {""} : Invoke(p, "daily_standup", 0, date)
    \/ \E p \in Procs, op \in {"timer", "tasks", "projects"} : Invoke(p, op, 0, "")
    \/ \E p \in Procs : ServeError(p)
    \/ \E p \in Procs : Serve(p)
    \/ \E p \in Procs : Resume(p)

Spec == Init /\ [][Next]_vars

-----------------------------------------------------------------------------
(* The timer tools on a log that earlier calls have filled, so that the      *)
(* records of the two invocations overflow it                               *)

\* a record made before the first of the two invocations is called
EarlierRecord ==
    /\ \A p \in Procs : inv[p].pc = "idle"
    /\ appended < max_changes
    /\ DoRecord("timer_stopped")

NextTrack ==
    \/ Clock
    \/ EarlierRecord
    \/ \E p \in Procs, task \in Tasks : Invoke(p, "start_timer", task, "")
    \/ \E p \in Procs : Invoke(p, "stop_timer", 0, "")
    \/ \E p \in Procs : ServeError(p)
    \/ \E p \in Procs : Serve(p)
    \/ \E p \in Procs : Resume(p)

SpecTrack == Init /\ [][NextTrack]_vars

-----------------------------------------------------------------------------
(* The handlers that validate their arguments, called with arguments of any *)
(* form                                                                      *)

TaskArgs == {-1, 0, 1}
NoteArgs == {MaxNoteLength, MaxNoteLength + 1}
DateArgs == Dates \cup {"2024-1-1", "2024-02-30", "01/01/2024"}

\* start_time and end_time: in order, reversed, equal, a start that is no
\* HH:MM text, an end that is no time of day
TimeArgs ==
    {<<"09:00", "10:30">>, <<"10:30", "09:00">>, <<"09:00", "09:00">>,
     <<"9:45", "10:30">>, <<"09:00", "24:00">>}

NextInput ==
    \/ Clock
    \/ \E p \in Procs, task \in TaskArgs, note \in NoteArgs :
          Call(p, "start_timer", task, "", "", "", note)
    \/ \E p \in Procs, task \in TaskArgs, date \in DateArgs, times \in TimeArgs,
          note \in NoteArgs :
          Call(p, "create_time_entry", task, date, times[1], times[2], note)
    \/ \E p \in Procs, date \in DateArgs : Call(p, "time_entries", 0, date, "", "", 0)
    \/ \E p \in Procs : ServeError(p)
    \/ \E p \in Procs : Serve(p)
    \/ \E p \in Procs : Resume(p)

SpecInput == Init /\ [][NextInput]_vars

-----------------------------------------------------------------------------
(* The timer tools and the timer resource on an account that other clients  *)
(* use as well: the upstream timer also changes without this server          *)

\* a timer is started upstream by another client of the account
ExternalStart(task) ==
    /\ upTimer = 0
    /\ upTimer' = task
    /\ UNCHANGED <<cache, now, changes, driverVars, inv, upEntries, token, plain>>

\* the running timer is stopped upstream by another client of the account
ExternalStop ==
    /\ upTimer # 0
    /\ upTimer' = 0
    /\ UNCHANGED <<cache, now, changes, driverVars, inv, upEntries, token, plain>>

NextTimer ==
    \/ Clock
    \/ \E p \in Procs, task \in Tasks : Invoke(p, "start_timer", task, "")
    \/ \E p \in Procs : Invoke(p, "stop_timer", 0, "")
    \/ \E p \in Procs : Invoke(p, "timer", 0, "")
    \/ \E task \in Tasks : ExternalStart(task)
    \/ ExternalStop
    \/ \E p \in Procs : ServeError(p)
    \/ \E p \in Procs : Serve(p)
    \/ \E p \in Procs : Resume(p)

SpecTimer == Init /\ [][NextTimer]_vars

-----------------------------------------------------------------------------
(* The daily summary of get_time_entries_resource as a function of the       *)
(* entries upstream returned                                                 *)

\* zero minutes are left out after the hours
FormatDuration_DropZeroMinutes(seconds) ==
    LET hours == seconds \div 3600
        minutes == (seconds % 3600) \div 60
    IN  IF hours > 0
        THEN IF minutes = 0 THEN ToString(hours) \o "h"
             ELSE ToString(hours) \o "h " \o ToString(minutes) \o "m"
        ELSE ToString(minutes) \o "m"

\* the minutes rounded to the nearest one
FormatDuration_Round(seconds) ==
    LET hours == seconds \div 3600
        minutes == ((seconds % 3600) + 30) \div 60
    IN  IF hours > 0
        THEN ToString(hours) \o "h " \o ToString(minutes) \o "m"
        ELSE ToString(minutes) \o "m"

\* format_duration
FormatDuration(seconds) ==
    LET hours == seconds \div 3600
        minutes == (seconds % 3600) \div 60
    IN  IF hours > 0
        THEN ToString(hours) \o "h " \o ToString(minutes) \o "m"
        ELSE ToString(minutes) \o "m"

MaxEntries == 3     \* entries of one day in upstream's answer

\* entry_data.get('task_id'): an int, the text of an int (by the number it
\* spells), or None when the entry carries none
IntId(n) == [int |-> n]
StrId(n) == [str |-> n]
TaskIds == {IntId(100), IntId(101), StrId(100), None}

Durations == {1800, 3600, 7200}

\* the values of upstream's dict of entries: with a duration, and one without
EntryData ==
    [duration : Durations, task_id : TaskIds] \cup {[task_id |-> IntId(100)]}

\* upstream's answers, as the sequence of the values in the order of the dict
EntryLists == UNION {[1..n -> EntryData] : n \in 0..MaxEntries}

\* isinstance(entry_data, dict) and 'duration' in entry_data
HasDuration(e) == "duration" \in DOMAIN e

\* entry_dict after the loop over the entries: one group per task_id, in the
\* order the ids were first met (a dict keeps insertion order)
RECURSIVE GroupByTask(_, _)
GroupByTask(entries, entry_dict) ==
    IF entries = <<>> THEN entry_dict
    ELSE LET e == Head(entries)
             at == {n \in 1..Len(entry_dict) : entry_dict[n].task_id = e.task_id}
         IN  IF ~HasDuration(e) THEN GroupByTask(Tail(entries), entry_dict)
             ELSE IF at = {}
             THEN GroupByTask(Tail(entries),
                      Append(entry_dict, [task_id |-> e.task_id, duration_seconds |-> e.duration]))
             ELSE GroupByTask(Tail(entries),
                      [entry_dict EXCEPT ![CHOOSE n \in at : TRUE].duration_seconds = @ + e.duration])

\* total_seconds after the loop
RECURSIVE TotalSeconds(_)
TotalSeconds(entries) ==
    IF entries = <<>> THEN 0
    ELSE (IF HasDuration(Head(entries)) THEN Head(entries).duration ELSE 0)
         + TotalSeconds(Tail(entries))

\* the int the field task_id: int of DailySummaryEntry holds for the id given
Coerce(task_id) == IF "int" \in DOMAIN task_id THEN task_id.int ELSE task_id.str

\* x is put behind the elements whose key is not smaller
InsertDesc(sorted, x) ==
    LET n == Cardinality({i \in 1..Len(sorted) : sorted[i].key >= x.key})
    IN  SubSeq(sorted, 1, n) \o <<x>> \o SubSeq(sorted, n + 1, Len(sorted))

\* list.sort(key=..., reverse=True): by decreasing key, equal keys keep their order
RECURSIVE SortDesc(_)
SortDesc(xs) ==
    IF xs = <<>> THEN <<>>
    ELSE InsertDesc(SortDesc(SubSeq(xs, 1, Len(xs) - 1)), xs[Len(xs)])

\* the DailySummaryResponse get_time_entries_resource builds from upstream's
\* entries, or the exception it raises
BuildSummary(entries) ==
    LET entry_dict == GroupByTask(entries, <<>>)
        N == 1..Len(entry_dict)
        InDict(id) == {n \in N : entry_dict[n].task_id = id}
    IN  IF \E n \in N : entry_dict[n].task_id = None
        THEN [error |-> "ValidationError"]
        ELSE LET entry_list ==
                     [n \in N |->
                        [task_id |-> Coerce(entry_dict[n].task_id),
                         duration |-> FormatDuration(entry_dict[n].duration_seconds),
                         duration_seconds |-> entry_dict[n].duration_seconds]]
             IN  IF \E n \in N : InDict(IntId(entry_list[n].task_id)) = {}
                 THEN [error |-> "KeyError"]
                 ELSE LET keyed ==
                              [n \in N |->
                                 [key |-> entry_dict[CHOOSE k \in InDict(IntId(entry_list[n].task_id)) : TRUE]
                                              .duration_seconds,
                                  item |-> entry_list[n]]]
                          sorted == SortDesc(keyed)
                      IN  [total_time |-> FormatDuration(TotalSeconds(entries)),
                           total_seconds |-> TotalSeconds(entries),
                           entries |-> [n \in N |-> sorted[n].item],
                           entry_count |-> Len(entry_dict)]

SecondsArgs == {0, 59, 60, 90, 119, 3599, 3600, 3660, 7199, 7320, 10800, 12600}

\* the summary is built from an answer of upstream; the function keeps no
\* state, so one application per behaviour covers it
DoSummary(entries) ==
    /\ call = NoCall
    /\ call' = [op |-> "time_entries", entries |-> entries]
    /\ ret' = BuildSummary(entries)
    /\ UNCHANGED <<cache, now, changes, hist, appended, inv, upTimer, upEntries, token, plain>>

DoFormat(seconds) ==
    /\ call = NoCall
    /\ call' = [op |-> "format_duration", seconds |-> seconds]
    /\ ret' = [text |-> FormatDuration(seconds)]
    /\ UNCHANGED <<cache, now, changes, hist, appended, inv, upTimer, upEntries, token, plain>>

NextSummary ==
    \/ \E entries \in EntryLists : DoSummary(entries)
    \/ \E seconds \in SecondsArgs : DoFormat(seconds)

SpecSummary == Init /\ [][NextSummary]_vars

-----------------------------------------------------------------------------
(* weekly_report_prompt, with the outcome of each day's                      *)
(* get_time_entries_resource call as input                                   *)

WeekLength == 7     \* range(7)

\* the character of a digit
DigitChar(n) == CHOOSE c \in DOMAIN Ord : Ord[c] = Ord["0"] + n

\* the decimal text of n, zero-padded to w places
RECURSIVE Zfill(_, _)
Zfill(n, w) == IF w = 0 THEN <<>> ELSE Zfill(n \div 10, w - 1) \o <<DigitChar(n % 10)>>

\* date.strftime("%Y-%m-%d")
StrftimeDate(d) == Zfill(d[1], 4) \o <<"-">> \o Zfill(d[2], 2) \o <<"-">> \o Zfill(d[3], 2)

\* date + timedelta(days=n)
RECURSIVE AddDays(_, _)
AddDays(d, n) ==
    IF n = 0 THEN d
    ELSE AddDays(IF d[3] < DaysIn(d[1], d[2]) THEN <<d[1], d[2], d[3] + 1>>
                 ELSE IF d[2] < 12 THEN <<d[1], d[2] + 1, 1>>
                 ELSE <<d[1] + 1, 1, 1>>,
                 n - 1)

\* start_date: weeks that run over the end of a year and of a leap February, an
\* unpadded date and a date that does not exist
WeekStarts == {"2024-12-29", "2024-02-26", "2024-1-1", "2024-02-30"}

\* what get_time_entries_resource.fn(date) does: it raises, or returns a
\* summary, given by the length of its entries and its total_seconds
DayOutcomes ==
    {[error |-> "Exception"],
     [entries |-> 0, total_seconds |-> 0],
     [entries |-> 1, total_seconds |-> 3600],
     [entries |-> 2, total_seconds |-> 5400]}

\* the first failing day ends the loop over the dates
AfterDay_AbortOnError(w, outcome) ==
    LET date == w.dates[w.pos]
        w2 == [w EXCEPT !.pos = @ + 1, !.fetched = Append(@, [date |-> date, outcome |-> outcome])]
    IN  IF "error" \in DOMAIN outcome THEN [w2 EXCEPT !.pos = WeekLength + 1]
        ELSE IF outcome.entries > 0
        THEN [w2 EXCEPT !.week_data = Append(@, [date |-> date,
                                                 total_time |-> FormatDuration(outcome.total_seconds)]),
                        !.total_seconds = @ + outcome.total_seconds]
        ELSE w2

\* one round of the loop over the dates: the day's summary is kept and added to
\* the total when it has entries; a day that raised is skipped
AfterDay(w, outcome) ==
    LET date == w.dates[w.pos]
        w2 == [w EXCEPT !.pos = @ + 1, !.fetched = Append(@, [date |-> date, outcome |-> outcome])]
    IN  IF "error" \in DOMAIN outcome THEN w2
        ELSE IF outcome.entries > 0
        THEN [w2 EXCEPT !.week_data = Append(@, [date |-> date,
                                                 total_time |-> FormatDuration(outcome.total_seconds)]),
                        !.total_seconds = @ + outcome.total_seconds]
        ELSE w2

\* x is put behind the elements whose date text is not greater
InsertByDate(sorted, x) ==
    LET n == Cardinality({i \in 1..Len(sorted) : StrLeq(sorted[i].date, x.date)})
    IN  SubSeq(sorted, 1, n) \o <<x>> \o SubSeq(sorted, n + 1, Len(sorted))

\* sorted(week_data.items()): by the text of the date
RECURSIVE SortByDate(_)
SortByDate(xs) ==
    IF xs = <<>> THEN <<>>
    ELSE InsertByDate(SortByDate(SubSeq(xs, 1, Len(xs) - 1)), xs[Len(xs)])

\* the report: its total line and its lines of "Time by Day"
WeeklyReport(w) ==
    [text |-> "Weekly Time Report", week_of |-> w.start_date,
     total_time |-> FormatDuration(w.total_seconds),
     days |-> SortByDate(w.week_data)]

\* weekly_report_prompt is called and runs up to the first day's fetch
WeeklyStart(start_date) ==
    /\ call = NoCall
    /\ IF StrptimeDateOk(Chars(start_date))
       THEN /\ call' = [op |-> "weekly_report", pc |-> "fetching", start_date |-> start_date,
                        dates |-> [n \in 1..WeekLength |->
                                     StrftimeDate(AddDays(StrptimeDate(Chars(start_date)), n - 1))],
                        pos |-> 1, week_data |-> <<>>, total_seconds |-> 0, fetched |-> <<>>]
            /\ ret' = None
       ELSE /\ call' = [op |-> "weekly_report", pc |-> "done", start_date |-> start_date]
            /\ ret' = [text |-> "Error generating weekly report"]
    /\ UNCHANGED <<cache, now, changes, hist, appended, inv, upTimer, upEntries, token, plain>>

\* the pending fetch ends with the outcome given and the prompt runs on to the
\* next fetch, or to its end after the last date
WeeklyFetch(outcome) ==
    /\ call.op = "weekly_report" /\ call.pc = "fetching"
    /\ LET w == AfterDay(call, outcome) IN
       IF w.pos > WeekLength
       THEN call' = [w EXCEPT !.pc = "done"] /\ ret' = WeeklyReport(w)
       ELSE call' = w /\ ret' = ret
    /\ UNCHANGED <<cache, now, changes, hist, appended, inv, upTimer, upEntries, token, plain>>

NextWeekly ==
    \/ \E start_date \in WeekStarts : WeeklyStart(start_date)
    \/ \E outcome \in DayOutcomes : WeeklyFetch(outcome)

SpecWeekly == Init /\ [][NextWeekly]_vars

-----------------------------------------------------------------------------
(* TimeCampClient.request as a function of what httpx hands back            *)

\* response.status_code
Statuses == {200, 204, 400, 401, 403, 404, 429, 500, 503, 599}

\* response.text: a JSON document, nothing, or text that is no JSON
BodyForms == {"json", "empty", "text"}

\* the httpx.RequestError raised when no response arrives
TransportFailures == {"ConnectError", "ReadTimeout"}

HttpOutcomes ==
    [status : Statuses, body : BodyForms] \cup {[failure |-> f] : f \in TransportFailures}

\* status 429 gets no message of its own
ClientRequest_NoRateLimit(outcome) ==
    IF "failure" \in DOMAIN outcome
    THEN ToolError("Network error: " \o outcome.failure)
    ELSE IF outcome.status >= 400
    THEN IF outcome.status = 401 THEN ToolError("Invalid API token. Check TimeCamp settings")
         ELSE IF outcome.status = 404 THEN ToolError("Resource not found")
         ELSE IF 500 <= outcome.status /\ outcome.status < 600
         THEN ToolError("TimeCamp unavailable. Try again later")
         ELSE ToolError("API error: " \o ToString(outcome.status))
    ELSE IF outcome.body = "empty" THEN [ok |-> TRUE, value |-> [json |-> "{}"]]
    ELSE IF outcome.body = "json" THEN [ok |-> TRUE, value |-> [json |-> "body"]]
    ELSE ToolError("Unexpected error: JSONDecodeError")

\* TimeCampClient.request: what it returns or raises.  raise_for_status raises
\* for the statuses from 400 on; response.json() raises on text that is no JSON
ClientRequest(outcome) ==
    IF "failure" \in DOMAIN outcome
    THEN ToolError("Network error: " \o outcome.failure)
    ELSE IF outcome.status >= 400
    THEN IF outcome.status = 401 THEN ToolError("Invalid API token. Check TimeCamp settings")
         ELSE IF outcome.status = 404 THEN ToolError("Resource not found")
         ELSE IF outcome.status = 429 THEN ToolError("Rate limit exceeded. Wait 60 seconds")
         ELSE IF 500 <= outcome.status /\ outcome.status < 600
         THEN ToolError("TimeCamp unavailable. Try again later")
         ELSE ToolError("API error: " \o ToString(outcome.status))
    ELSE IF outcome.body = "empty" THEN [ok |-> TRUE, value |-> [json |-> "{}"]]
    ELSE IF outcome.body = "json" THEN [ok |-> TRUE, value |-> [json |-> "body"]]
    ELSE ToolError("Unexpected error: JSONDecodeError")

\* the endpoints the handlers request
Endpoints ==
    {"GET timer_running", "GET tasks", "GET projects", "GET time_entries",
     "POST timer", "PUT timer", "POST time_entries"}

\* one request of the client; the client keeps no state, so one request per
\* behaviour covers it
DoRequest(endpoint, outcome) ==
    /\ call = NoCall
    /\ call' = [op |-> "request", endpoint |-> endpoint, outcome |-> outcome]
    /\ ret' = ClientRequest(outcome)
    /\ UNCHANGED <<cache, now, changes, hist, appended, inv, upTimer, upEntries, token, plain>>

NextClient == \E endpoint \in Endpoints, outcome \in HttpOutcomes : DoRequest(endpoint, outcome)

SpecClient == Init /\ [][NextClient]_vars

-----------------------------------------------------------------------------
(* The handlers in a process whose environment loses the api token          *)

\* TIMECAMP_API_TOKEN is removed from the environment of the process
Unsetenv ==
    /\ token
    /\ token' = FALSE
    /\ UNCHANGED <<cache, now, changes, driverVars, handlerVars, plain>>

NextToken ==
    \/ Unsetenv
    \/ \E p \in Procs, task \in Tasks : Invoke(p, "start_timer", task, "")
    \/ \E p \in Procs : Invoke(p, "stop_timer", 0, "")
    \/ \E p \in Procs, task \in Tasks, date \in Dates : Invoke(p, "create_time_entry", task, date)
    \/ \E p \in Procs, date \in Dates : Invoke(p, "time_entries", 0, date)
    \/ \E p \in Procs, op \in {"timer", "tasks", "projects"} : Invoke(p, op, 0, "")
    \/ \E p \in Procs : ServeError(p)
    \/ \E p \in Procs : Serve(p)
    \/ \E p \in Procs : Resume(p)

SpecToken == Init /\ [][NextToken]_vars

-----------------------------------------------------------------------------
(* Direct calls on a SimpleCache and a StateTracker that get cleared *)

NextClear ==
    \/ Tick
    \/ \E k \in CacheKeys : DoSet(k, [v |-> 1], CACHE_TTL)
    \/ \E k \in CacheKeys, e \in {None, Etag([v |-> 1])} : DoGet(k, e)
    \/ DoClear
    \/ DoRecord("timer_started")
    \/ \E ts \in {None, DateTime(0)} : DoGetChanges(ts)
    \/ DoClearLog

SpecClear == Init /\ [][NextClear]_vars

-----------------------------------------------------------------------------
(* A client that polls the changes resource while tools record changes *)

\* get_state_changes_resource at clock reading t
StateChanges(L, t) ==
    [changes |-> GetChangesSince(L, None), timestamp |-> IsoFormat(t)]

\* a mutating tool reaches its state_tracker.record_change; the records are
\* numbered in the order of their appends
ToolRecords(ty) ==
    /\ appended < MaxAppends
    /\ appended' = appended + 1
    /\ changes' = RecordChange(changes, ty, [index |-> appended + 1], now)
    /\ UNCHANGED <<cache, now, call, ret, hist, inv, upTimer, upEntries, token, plain>>

\* the client reads the resource and keeps the records whose timestamp is
\* strictly greater than the timestamp of the response to its previous poll (all
\* of them at its first poll).  call holds the poll: the timestamp it returned,
\* the number of records appended up to it, and whether fewer than max_changes
\* records were appended between any two polls so far; ret.seen is what the
\* client has kept over its polls
Poll ==
    LET response == StateChanges(changes, now)
        first == call.op # "poll"
        kept == IF first THEN response.changes
                ELSE SelectSeq(response.changes,
                        LAMBDA c : FromIsoFormat(c.timestamp) > FromIsoFormat(call.timestamp))
        before == IF first THEN 0 ELSE call.upto
    IN  /\ call' = [op |-> "poll", timestamp |-> response.timestamp, upto |-> appended,
                    within |-> (first \/ call.within) /\ appended - before < max_changes]
        /\ ret' = [seen |-> (IF first THEN <<>> ELSE ret.seen) \o kept]
        /\ UNCHANGED <<cache, now, changes, hist, appended, inv, upTimer, upEntries, token, plain>>

NextPoll ==
    \/ Clock
    \/ ToolRecords("timer_started")
    \/ Poll

SpecPoll == Init /\ [][NextPoll]_vars

-----------------------------------------------------------------------------
(* create_time_entry called with times of any form *)

\* start_time and end_time: TimeArgs, and an end time whose second digit is
\* the Arabic-Indic nine, after a start of the same hour
EntryTimes == TimeArgs \cup {<<"19:30", "1(U+0669):00">>, <<"19:30", "09:00">>}

NextEntry ==
    \/ Clock
    \/ \E p \in Procs, date \in Dates, times \in EntryTimes :
          Call(p, "create_time_entry", 1, date, times[1], times[2], 0)
    \/ \E p \in Procs : ServeError(p)
    \/ \E p \in Procs : Serve(p)
    \/ \E p \in Procs : Resume(p)

SpecEntry == Init /\ [][NextEntry]_vars

-----------------------------------------------------------------------------
(* The SimpleCache of src/server.py, and the same calls made on it and on    *)
(* the cache with etags                                                       *)

\* SimpleCache.get of src/server.py at clock reading t
PlainGet(c, key, t) ==
    IF key \in DOMAIN c
    THEN IF t < c[key].expiry
         THEN [cache |-> c, ret |-> c[key].value]
         ELSE [cache |-> Del(c, key), ret |-> None]
    ELSE [cache |-> c, ret |-> None]

\* SimpleCache.set of src/server.py
PlainSet(c, key, value, ttl, t) == Put(c, key, [value |-> value, expiry |-> t + ttl])

\* SimpleCache.clear of src/server.py
PlainClear(c) == [x \in {} |-> None]

BothSet(k, v, ttl) ==
    /\ cache' = CacheSet(cache, k, v, ttl, now).cache
    /\ plain' = PlainSet(plain, k, v, ttl, now)
    /\ call' = [op |-> "set", key |-> k, value |-> v, ttl |-> ttl]
    /\ ret' = None
    /\ UNCHANGED <<now, changes, hist, appended, inv, upTimer, upEntries, token>>

\* get(k), without etag, on both
BothGet(k) ==
    LET g == CacheGet(cache, k, None, now)
        h == PlainGet(plain, k, now)
    IN  /\ cache' = g.cache
        /\ plain' = h.cache
        /\ call' = [op |-> "get", key |-> k, etag |-> None]
        /\ ret' = [etagged |-> g.ret, plain |-> h.ret]
        /\ UNCHANGED <<now, changes, hist, appended, inv, upTimer, upEntries, token>>

BothClear ==
    /\ cache' = CacheClear(cache)
    /\ plain' = PlainClear(plain)
    /\ call' = [op |-> "clear"]
    /\ ret' = None
    /\ UNCHANGED <<now, changes, hist, appended, inv, upTimer, upEntries, token>>

NextBoth ==
    \/ Tick
    \/ \E k \in CacheKeys, v \in Values, ttl \in 0..MaxTTL : BothSet(k, v, ttl)
    \/ \E k \in CacheKeys : BothGet(k)
    \/ BothClear

SpecBoth == Init /\ [][NextBoth]_vars

-----------------------------------------------------------------------------
(* Claims about SimpleCache, checked under SpecCache *)

\* By the calls made so far, key k holds a value whose ttl has not elapsed: the
\* last set / invalidate / clear on k was a set, made less than ttl ticks ago
LiveByHist(k) ==
    /\ hist[k].state = "set"
    /\ now - hist[k].at < hist[k].ttl

\* the entry of key k, None when the dict has none
EntryOf(c, k) == IF k \in DOMAIN c THEN c[k] ELSE None

Absent == Triple(None, None, FALSE)

\* C5: after set(k, v, ttl) with ttl > 0 and no later set, invalidate or clear on
\* k, a get(k) without etag made before ttl ticks have elapsed returns v, the
\* etag that set returned and not_modified = False; one made once ttl ticks
\* have elapsed returns (None, None, False).
C5_GetAfterSet ==
    (call.op = "get" /\ call.etag = None /\ hist[call.key].state = "set"
        /\ hist[call.key].ttl > 0)
    => LET h == hist[call.key] IN
       IF now - h.at < h.ttl
       THEN ret = Triple(h.value, h.etag, FALSE)
       ELSE ret = Absent

C5_Witness ==
    /\ call.op = "get" /\ call.etag = None
    /\ hist[call.key].state = "set"
    /\ hist[call.key].value # None
    /\ now - hist[call.key].at > 0
    /\ now - hist[call.key].at < hist[call.key].ttl
    /\ ret.value = hist[call.key].value

\* C6: while key k holds a live value with etag e, get(k, e) returns
\* (None, e, True) and get(k, e2) for a provided e2 # e returns (value, e, False);
\* when k holds no live value, no get returns not_modified = True.
C6_ConditionalGet ==
    call.op = "get" =>
      LET k == call.key
          h == hist[k]
      IN  IF LiveByHist(k)
          THEN /\ call.etag = h.etag => ret = Triple(None, h.etag, TRUE)
               /\ (call.etag # None /\ call.etag # h.etag)
                     => ret = Triple(h.value, h.etag, FALSE)
          ELSE ret.not_modified = FALSE

C6_Witness ==
    /\ call.op = "get"
    /\ LiveByHist(call.key)
    /\ call.etag = hist[call.key].etag
    /\ ret.not_modified = TRUE

\* C7: once invalidate(k) was called, every get(k) returns (None, None, False)
\* until the next set on k, whatever ttl the entry had left; the invalidate call
\* leaves the entry of every other key as it was, and the whole dict as it was
\* when k had no entry.
C7_InvalidateStep ==
    /\ (call'.op = "get" /\ hist[call'.key].state = "invalidated") => ret' = Absent
    /\ call'.op = "invalidate" =>
         /\ call'.key \notin DOMAIN cache'
         /\ \A k2 \in CacheKeys \ {call'.key} : EntryOf(cache', k2) = EntryOf(cache, k2)
         /\ call'.key \notin DOMAIN cache => cache' = cache

C7_Invalidate == [][C7_InvalidateStep]_vars

\* a get answered absent on a key that was invalidated while its entry, and the
\* entry of the other key, were live; the other key's entry is still there
C7_Witness ==
    /\ call.op = "get" /\ ret = Absent
    /\ hist[call.key].state = "invalidated"
    /\ \E k2 \in CacheKeys \ {call.key} : LiveByHist(k2) /\ k2 \in DOMAIN cache

\* C8: a get(k, etag) on an entry whose expiry has been reached returns
\* (None, None, False), also when etag is the stored etag, and deletes the
\* entry; a get on a live entry or on a key without entry leaves the dict as it
\* was; a get on k never changes the entry of another key.
C8_GetStep ==
    call'.op = "get" =>
      LET k == call'.key IN
      /\ (k \in DOMAIN cache /\ now >= cache[k].expiry)
            => ret' = Absent /\ k \notin DOMAIN cache'
      /\ (k \in DOMAIN cache /\ now < cache[k].expiry) => cache' = cache
      /\ k \notin DOMAIN cache => cache' = cache
      /\ \A k2 \in CacheKeys \ {k} : EntryOf(cache', k2) = EntryOf(cache, k2)

C8_LazyExpiry == [][C8_GetStep]_vars

\* a get with the stored etag found the entry expired and deleted it
C8_Witness ==
    /\ call.op = "get" /\ ret = Absent
    /\ hist[call.key].state = "set"
    /\ hist[call.key].ttl > 0
    /\ call.etag = hist[call.key].etag
    /\ now >= hist[call.key].at + hist[call.key].ttl
    /\ call.key \notin DOMAIN cache

\* C15: set returns the same etag for equal values, on every call and for every
\* key, and a get with the etag a set returned for a value equal to the live
\* value of the key answers not modified.
C15_PureEtag ==
    /\ \A k1 \in CacheKeys, k2 \in CacheKeys :
          (hist[k1].state = "set" /\ hist[k2].state = "set"
              /\ PyEq(hist[k1].value, hist[k2].value))
            => hist[k1].etag = hist[k2].etag
    /\ (call.op = "get" /\ LiveByHist(call.key)
          /\ \E w \in Values : PyEq(w, hist[call.key].value) /\ call.etag = Etag(w))
        => ret.not_modified

\* C16: when the last set / invalidate / clear on k was a set with ttl = 0, a
\* get(k), with or without etag, at the instant of the set or later, returns
\* (None, None, False).
C16_ZeroTtl ==
    (call.op = "get" /\ hist[call.key].state = "set" /\ hist[call.key].ttl = 0)
      => ret = Absent

\* such a get made at the very instant of the set, presenting the etag set returned
C16_Witness ==
    /\ call.op = "get" /\ ret = Absent
    /\ hist[call.key].state = "set" /\ hist[call.key].ttl = 0
    /\ hist[call.key].at = now
    /\ call.etag = hist[call.key].etag

-----------------------------------------------------------------------------
(* Claims about the handlers, checked under Spec *)

\* all keys the handlers use
AllKeys == {"projects", "tasks", "timer"} \cup {TimeEntriesKey(d) : d \in Dates}

\* this step runs code of the invocation of task p (its call, or its
\* continuation after a response), not upstream's handling of its request
HandlerStep(p) == inv'[p] # inv[p] /\ inv[p].pc # "sent"

ReturnedOk(i) == i.pc = "done" /\ "ok" \in DOMAIN i.result
Failed(i) == i.pc = "done" /\ "error" \in DOMAIN i.result

IsLive(c, k, t) == k \in DOMAIN c /\ t < c[k].expiry

\* the entry a read-through of key k stores at clock reading t
Fresh(k, t) ==
    [value |-> [list |-> k], expiry |-> t + CACHE_TTL, etag |-> Etag([list |-> k])]

\* C1 (as stated): after start_timer or stop_timer returns successfully the
\* cache holds no entry for timer and none for time-entries/{today}, and an
\* entry for projects, tasks or time-entries/{D}, D another date, that was live
\* when the tool was called and is still in the cache is left there, with the
\* same value, expiry and etag, by every step of the invocation.
C1_OriginalStep ==
    \A p \in Procs :
      (HandlerStep(p) /\ inv'[p].op \in {"start_timer", "stop_timer"}) =>
        /\ ReturnedOk(inv'[p]) =>
              /\ "timer" \notin DOMAIN cache'
              /\ TimeEntriesKey(Today(now)) \notin DOMAIN cache'
        /\ \A k \in {"projects", "tasks"} \cup {TimeEntriesKey(d) : d \in Dates \ {Today(now)}} :
              (k \in DOMAIN inv'[p].pre /\ EntryOf(cache, k) = inv'[p].pre[k])
                 => EntryOf(cache', k) = inv'[p].pre[k]

C1_Original == [][C1_OriginalStep]_vars

\* C1 (amended): after start_timer or stop_timer returns successfully the
\* cache holds no entry for timer and none for time-entries/{today}; no step of
\* the invocation changes the entry for projects or for time-entries/{D}, D
\* another date; stop_timer never changes the tasks entry, and start_timer
\* changes it only in its read-through of the task list: its lookup after the
\* write purges an entry that has expired, and the answer to its GET tasks
\* stores the fetched list with a new expiry.
C1_TimerStep ==
    \A p \in Procs :
      (HandlerStep(p) /\ inv'[p].op \in {"start_timer", "stop_timer"}) =>
        /\ ReturnedOk(inv'[p]) =>
              /\ "timer" \notin DOMAIN cache'
              /\ TimeEntriesKey(Today(now)) \notin DOMAIN cache'
        /\ \A k \in {"projects"} \cup {TimeEntriesKey(d) : d \in Dates \ {Today(now)}} :
              EntryOf(cache', k) = EntryOf(cache, k)
        /\ EntryOf(cache', "tasks") # EntryOf(cache, "tasks") =>
              /\ inv'[p].op = "start_timer"
              /\ \/ /\ inv[p].stage = "write"
                    /\ "tasks" \in DOMAIN cache /\ now >= cache["tasks"].expiry
                    /\ "tasks" \notin DOMAIN cache'
                 \/ /\ inv[p].stage = "lookup"
                    /\ EntryOf(cache', "tasks") = Fresh("tasks", now)

C1_TimerInvalidation == [][C1_TimerStep]_vars

\* start_timer returned; the entries for tasks, projects and another date's
\* time entries are live, timer and today's time entries are gone
C1_Witness ==
    \E p \in Procs :
      /\ inv[p].op = "start_timer" /\ ReturnedOk(inv[p])
      /\ \A k \in {"projects", "tasks"} \cup {TimeEntriesKey(d) : d \in Dates \ {Today(now)}} :
            IsLive(cache, k, now)
      /\ "timer" \notin DOMAIN cache
      /\ TimeEntriesKey(Today(now)) \notin DOMAIN cache
      /\ Len(changes) = 1

\* C2: a successful create_time_entry for date D leaves no entry for
\* time-entries/{D}; no step of the invocation removes a live entry of another
\* key, the step that returns removes no other key at all, and the entries for
\* timer and for time-entries/{D2}, D2 # D, are never changed.
C2_CreateStep ==
    \A p \in Procs :
      (HandlerStep(p) /\ inv'[p].op = "create_time_entry") =>
        LET own == TimeEntriesKey(inv'[p].date) IN
        /\ ReturnedOk(inv'[p]) =>
              /\ own \notin DOMAIN cache'
              /\ (DOMAIN cache) \ {own} \subseteq DOMAIN cache'
        /\ \A k \in AllKeys \ {own} : IsLive(cache, k, now) => k \in DOMAIN cache'
        /\ \A k \in AllKeys \ {own, "tasks", "projects"} :
              EntryOf(cache', k) = EntryOf(cache, k)

C2_CreateInvalidation == [][C2_CreateStep]_vars

\* create_time_entry returned for another date than today while timer, tasks,
\* projects and today's time entries were cached: they are all still there
C2_Witness ==
    \E p \in Procs :
      /\ inv[p].op = "create_time_entry" /\ ReturnedOk(inv[p])
      /\ inv[p].date # Today(now)
      /\ TimeEntriesKey(inv[p].date) \notin DOMAIN cache
      /\ \A k \in {"timer", "projects", "tasks", TimeEntriesKey(Today(now))} :
            k \in DOMAIN cache

\* C3: a mutating tool whose upstream write fails ends with an error, and no
\* step it took, from its call to the failure, changed the cache or the change
\* log.
C3_WriteStep ==
    \A p \in Procs :
      (HandlerStep(p) /\ inv'[p].op \in MutatingOps) =>
        /\ (inv'[p].pc = "sent" /\ inv'[p].stage \in {"check", "write"})
              => cache' = cache /\ changes' = changes
        /\ (inv[p].pc = "served" /\ inv[p].stage = "write" /\ ~inv[p].resp.ok)
              => /\ Failed(inv'[p])
                 /\ cache' = cache
                 /\ changes' = changes

C3_FailedWrite == [][C3_WriteStep]_vars

\* start_timer ended in error after its POST timer failed, with a live timer
\* entry in the cache
C3_Witness ==
    \E p \in Procs :
      /\ inv[p].op = "start_timer" /\ Failed(inv[p])
      /\ inv[p].result = RequestFailed
      /\ "POST timer" \in inv[p].reqs
      /\ IsLive(cache, "timer", now)
      /\ changes = <<>>

\* C4: when the check of start_timer finds a timer running, the invocation
\* ends with the already-running error that names the running timer's task,
\* has issued no POST timer, and no step of it changed the cache or the change
\* log.
C4_CheckStep ==
    \A p \in Procs :
      /\ (HandlerStep(p) /\ inv[p].pc # "served" /\ inv'[p].op = "start_timer")
            => cache' = cache /\ changes' = changes
      /\ (HandlerStep(p) /\ inv[p].op = "start_timer" /\ inv[p].stage = "check"
            /\ inv[p].resp.ok /\ inv[p].resp.body.running)
            => /\ Failed(inv'[p])
               /\ inv'[p].result = [error |-> "ToolError", message |-> "Timer already running",
                                    task |-> inv[p].resp.body.task]
               /\ "POST timer" \notin inv'[p].reqs
               /\ cache' = cache
               /\ changes' = changes

C4_AlreadyRunning == [][C4_CheckStep]_vars

\* start_timer for one task was rejected while the timer of another task runs
C4_Witness ==
    \E p \in Procs :
      /\ inv[p].op = "start_timer" /\ Failed(inv[p])
      /\ inv[p].result = [error |-> "ToolError", message |-> "Timer already running",
                          task |-> upTimer]
      /\ upTimer # inv[p].task
      /\ "tasks" \in DOMAIN cache

\* C11 (as stated): no step of a tool, resource or prompt invocation removes or
\* changes a live projects or tasks entry: it stays in the cache with the same
\* value, expiry and etag until its ttl has elapsed.
C11_OriginalStep ==
    \A k \in {"projects", "tasks"} :
      IsLive(cache, k, now) => EntryOf(cache', k) = cache[k]

StoresFetched(p, k) ==
    /\ HandlerStep(p)
    /\ inv[p].pc = "served" /\ inv[p].stage = "lookup" /\ inv[p].resp.ok
    /\ Head(inv[p].todo) = k

\* C11 (amended): no step of a tool, resource or prompt invocation removes a
\* projects or tasks entry whose ttl has not elapsed; such an entry is changed
\* only by a read-through of the same key that missed before the entry was
\* stored and whose fetch is answered now: it replaces the entry by the list it
\* fetched, with a new expiry.  An entry is removed only once it has expired.
C11_ListsStep ==
    \A k \in {"projects", "tasks"} :
      /\ IsLive(cache, k, now) =>
            \/ EntryOf(cache', k) = cache[k]
            \/ \E p \in Procs : StoresFetched(p, k) /\ EntryOf(cache', k) = Fresh(k, now)
      /\ (k \in DOMAIN cache /\ k \notin DOMAIN cache') => now >= cache[k].expiry

-----------------------------------------------------------------------------
(* Claims about the timer tools on a shared account, checked under SpecTimer *)

\* C12: start_timer begins by issuing GET timer_running, without reading or
\* changing the cache; it issues POST timer only after that check answered that
\* no timer runs, and when the check reports a running timer it is rejected
\* without a POST timer, whatever the cached timer entry says.
C12_CheckStep ==
    \A p \in Procs :
      (HandlerStep(p) /\ inv'[p].op = "start_timer") =>
        /\ inv[p].pc = "idle" =>
              /\ inv'[p].pc = "sent" /\ inv'[p].req = "GET timer_running"
              /\ cache' = cache
        /\ (inv'[p].pc = "sent" /\ inv'[p].req = "POST timer") =>
              /\ inv[p].pc = "served" /\ inv[p].stage = "check"
              /\ inv[p].resp.ok /\ ~inv[p].resp.body.running
        /\ (inv[p].pc = "served" /\ inv[p].stage = "check"
              /\ inv[p].resp.ok /\ inv[p].resp.body.running) =>
              /\ inv'[p].pc = "done"
              /\ inv'[p].result = [error |-> "ToolError", message |-> "Timer already running",
                                    task |-> inv[p].resp.body.task]
              /\ "POST timer" \notin inv'[p].reqs

C12_UncachedCheck == [][C12_CheckStep]_vars

\* start_timer was rejected while a live cached timer entry says that no timer
\* is running
C12_Witness ==
    \E p \in Procs :
      /\ inv[p].op = "start_timer" /\ inv[p].pc = "done"
      /\ inv[p].result = [error |-> "ToolError", message |-> "Timer already running",
                          task |-> upTimer]
      /\ "timer" \in DOMAIN inv[p].pre
      /\ IsLive(cache, "timer", now)
      /\ cache["timer"].value = [is_running |-> FALSE]
      /\ upTimer # 0

\* C13: when the check of stop_timer finds no timer running, the invocation
\* ends with the no-timer-running error and has issued no PUT timer; neither
\* that step nor the call of the tool changes the cache or the change log.
C13_CheckStep ==
    \A p \in Procs :
      (HandlerStep(p) /\ inv'[p].op = "stop_timer") =>
        /\ inv[p].pc = "idle" => cache' = cache /\ changes' = changes
        /\ (inv[p].pc = "served" /\ inv[p].stage = "check"
              /\ inv[p].resp.ok /\ ~inv[p].resp.body.running) =>
              /\ inv'[p].pc = "done"
              /\ inv'[p].result = ToolError("No timer is currently running")
              /\ "PUT timer" \notin inv'[p].reqs
              /\ cache' = cache
              /\ changes' = changes

C13_NotRunning == [][C13_CheckStep]_vars

\* stop_timer was rejected while a live cached timer entry still says that a
\* timer is running; the entry is kept and nothing was recorded
C13_Witness ==
    \E p \in Procs :
      /\ inv[p].op = "stop_timer" /\ inv[p].pc = "done"
      /\ inv[p].result = ToolError("No timer is currently running")
      /\ IsLive(cache, "timer", now)
      /\ cache["timer"].value.is_running
      /\ upTimer = 0
      /\ changes = <<>>

-----------------------------------------------------------------------------
(* Claims about argument validation, checked under SpecInput *)

\* the text is no calendar date written YYYY-MM-DD
MalformedDate(text) ==
    ~(MatchesDatePattern(Chars(text)) /\ StrptimeDateOk(Chars(text)))

\* the text is no time of day written HH:MM
MalformedTime(text) ==
    ~(MatchesTimePattern(Chars(text)) /\ StrptimeTimeOk(Chars(text)))

\* minutes since midnight of a well-formed HH:MM text
MinutesOf(text) ==
    LET f == Split(Chars(text), ":") IN 60 * IntOf(f[1]) + IntOf(f[2])

\* the arguments of create_time_entry fail one of the local checks
InvalidEntry(task, date, start, finish, note) ==
    \/ task <= 0
    \/ note > MaxNoteLength
    \/ MalformedDate(date)
    \/ MalformedTime(start)
    \/ MalformedTime(finish)
    \/ MinutesOf(finish) <= MinutesOf(start)

\* the step ends the invocation of p with an error: no request was issued, and
\* the cache and the change log are as they were
Rejected(p) ==
    /\ inv'[p].pc = "done"
    /\ Failed(inv'[p])
    /\ inv'[p].reqs = {}
    /\ cache' = cache
    /\ changes' = changes

\* C14: a call of start_timer or create_time_entry with task_id <= 0 or a note
\* of more than 1000 characters, of create_time_entry with a malformed date or
\* time or with end_time <= start_time, and of the time-entries resource with a
\* malformed date ends at once with an error, before any upstream request, and
\* leaves the cache and the change log unchanged.
C14_CallStep ==
    \A p \in Procs :
      (inv[p].pc = "idle" /\ inv'[p].pc # "idle") =>
        /\ inv'[p].op = "start_timer" =>
              (\A note \in NoteArgs :
                 (/\ inv'[p].task <= 0 \/ note > MaxNoteLength
                  /\ Call(p, "start_timer", inv'[p].task, "", "", "", note))
                    => Rejected(p))
        /\ inv'[p].op = "create_time_entry" =>
              (\A times \in TimeArgs, note \in NoteArgs :
                 (/\ InvalidEntry(inv'[p].task, inv'[p].date, times[1], times[2], note)
                  /\ Call(p, "create_time_entry", inv'[p].task, inv'[p].date,
                          times[1], times[2], note))
                    => Rejected(p))
        /\ inv'[p].op = "time_entries" =>
              ((/\ MalformedDate(inv'[p].date)
                /\ Call(p, "time_entries", 0, inv'[p].date, "", "", 0))
                  => Rejected(p))

C14_ValidationFirst == [][C14_CallStep]_vars

-----------------------------------------------------------------------------
(* Claims about the log of the timer tools, checked under SpecTrack *)

\* C17: in every reachable state the timestamps of the records of the change
\* log are non-decreasing in log order, whatever the interleaving of the
\* invocations and also after the log has overflowed and dropped its oldest
\* records.
C17_OrderedLog ==
    \A i \in 1..Len(changes), j \in 1..Len(changes) :
        i < j => FromIsoFormat(changes[i].timestamp) <= FromIsoFormat(changes[j].timestamp)

\* a full log that has dropped its two oldest records and ends with the records
\* of the two invocations, the second of them made at a later clock reading
C17_Witness ==
    /\ appended = max_changes /\ Len(changes) = max_changes
    /\ changes[1].details = [index |-> max_changes]
    /\ \A p \in Procs : inv[p].pc = "done"
    /\ FromIsoFormat(changes[2].timestamp) < FromIsoFormat(changes[3].timestamp)

-----------------------------------------------------------------------------
(* Claims about the daily summary, checked under SpecSummary *)

\* the positions of the entries that carry a duration
WithDuration(entries) == {n \in 1..Len(entries) : HasDuration(entries[n])}

\* the sum of the durations of the entries of task id
RECURSIVE TaskSeconds(_, _)
TaskSeconds(entries, id) ==
    IF entries = <<>> THEN 0
    ELSE (IF HasDuration(Head(entries)) /\ Head(entries).task_id = id
          THEN Head(entries).duration ELSE 0)
         + TaskSeconds(Tail(entries), id)

RECURSIVE GroupSeconds(_)
GroupSeconds(groups) ==
    IF groups = <<>> THEN 0
    ELSE Head(groups).duration_seconds + GroupSeconds(Tail(groups))

\* C19: the summary built from upstream's entries has exactly one grouped entry
\* per distinct task among the entries that carry a duration, each with the sum
\* of that task's durations as duration_seconds; total_seconds is the sum of
\* the groups' durations; the groups are in order of non-increasing
\* duration_seconds.
C19_GroupedSummary ==
    call.op = "time_entries" =>
      LET ids == {call.entries[n].task_id : n \in WithDuration(call.entries)} IN
      /\ "entries" \in DOMAIN ret
      /\ Len(ret.entries) = Cardinality(ids)
      /\ \A id \in ids :
            \E n \in 1..Len(ret.entries) :
               /\ ret.entries[n].task_id = Coerce(id)
               /\ ret.entries[n].duration_seconds = TaskSeconds(call.entries, id)
      /\ ret.total_seconds = GroupSeconds(ret.entries)
      /\ \A n \in 1..(Len(ret.entries) - 1) :
            ret.entries[n].duration_seconds >= ret.entries[n + 1].duration_seconds

\* the entries are 3600 s and 7200 s of task a and 1800 s of task b, in any order
IsExample(entries, a, b) ==
    /\ Len(entries) = 3
    /\ \E i, j, k \in 1..3 :
          /\ {i, j, k} = 1..3
          /\ entries[i] = [duration |-> 3600, task_id |-> IntId(a)]
          /\ entries[j] = [duration |-> 7200, task_id |-> IntId(a)]
          /\ entries[k] = [duration |-> 1800, task_id |-> IntId(b)]

ExampleCase ==
    /\ call.op = "time_entries"
    /\ \E a, b \in {100, 101} : a # b /\ IsExample(call.entries, a, b)

ExampleShows(text) ==
    \A a, b \in {100, 101} :
      (a # b /\ IsExample(call.entries, a, b)) =>
        /\ ret.total_time = "3h 30m"
        /\ Len(ret.entries) = 2 /\ ret.entry_count = 2
        /\ ret.entries[1].task_id = a /\ ret.entries[1].duration = text
        /\ ret.entries[2].task_id = b

\* C20 as stated: the summary of {3600 s task A}, {7200 s task A}, {1800 s task B}
\* has total "3h 30m" and two grouped entries, task A before task B, task A's
\* duration shown as "2h 30m".
C20_Original == call.op = "time_entries" => ExampleShows("2h 30m")

\* C20: the same, with task A's duration shown as "3h 0m" (10800 s) and task
\* B's as "30m".
C20_Example ==
    call.op = "time_entries" =>
      /\ ExampleShows("3h 0m")
      /\ ExampleCase => ret.entries[2].duration = "30m"

C20_Witness ==
    /\ ExampleCase
    /\ call.entries[1].duration = 1800
    /\ ret.entries[1].duration_seconds = 10800 /\ ret.total_seconds = 12600

-----------------------------------------------------------------------------
(* Claims about StateTracker, checked under SpecLog *)

\* C9: the log never holds more than max_changes records, and after more than
\* max_changes appends without a clear, get_changes_since() returns exactly
\* max_changes records: the last max_changes appended, in append order.
C9_BoundedLog ==
    /\ Len(changes) <= max_changes
    /\ (call.op = "get_changes_since" /\ call.timestamp = None /\ appended > max_changes)
        => /\ Len(ret) = max_changes
           /\ \A i \in 1..max_changes :
                 ret[i].details.index = appended - max_changes + i

C9_Witness ==
    /\ call.op = "get_changes_since" /\ call.timestamp = None
    /\ appended = max_changes + 2
    /\ Len(ret) = max_changes
    /\ ret[1].details.index = 3

\* the positions of the log whose record is newer than clock reading t
NewerThan(L, t) == {i \in 1..Len(L) : FromIsoFormat(L[i].timestamp) > t}

\* the j-th smallest element of a set of numbers
Nth(S, j) == CHOOSE i \in S : Cardinality({x \in S : x <= i}) = j

\* C10: get_changes_since(t) returns exactly the retained records whose
\* timestamp is strictly greater than t, in log order; without argument it
\* returns the whole retained log; the log is left as it was.
C10_SinceStep ==
    call'.op = "get_changes_since" =>
      /\ changes' = changes
      /\ IF call'.timestamp = None
         THEN ret' = changes
         ELSE LET S == NewerThan(changes, call'.timestamp.dt) IN
              /\ Len(ret') = Cardinality(S)
              /\ \A j \in 1..Len(ret') : ret'[j] = changes[Nth(S, j)]

C10_ChangesSince == [][C10_SinceStep]_vars

\* a filtered read that dropped a record stamped exactly t and an older one, and
\* kept a newer one
C10_Witness ==
    /\ call.op = "get_changes_since" /\ call.timestamp # None
    /\ Len(changes) = 3 /\ Len(ret) = 1
    /\ \E i \in 1..Len(changes) : FromIsoFormat(changes[i].timestamp) = call.timestamp.dt
    /\ \E i \in 1..Len(changes) : FromIsoFormat(changes[i].timestamp) < call.timestamp.dt

-----------------------------------------------------------------------------
(* Claims about weekly_report_prompt, checked under SpecWeekly *)

\* the days of the week whose fetch returned a summary with at least one entry
Counted(fetched) ==
    {i \in 1..Len(fetched) :
        "entries" \in DOMAIN fetched[i].outcome /\ fetched[i].outcome.entries > 0}

\* the sum of total_seconds over the first n days, the counted ones only
RECURSIVE CountedSeconds(_, _)
CountedSeconds(fetched, n) ==
    IF n = 0 THEN 0
    ELSE (IF n \in Counted(fetched) THEN fetched[n].outcome.total_seconds ELSE 0)
         + CountedSeconds(fetched, n - 1)

\* C18: a weekly report for a valid start_date has fetched the 7 dates from
\* start_date on, whichever of the fetches failed; its total is the sum of
\* total_seconds over the days whose fetch returned at least one entry, and
\* exactly those days are listed, in ascending order of their dates.
C18_WeeklyReport ==
    (call.op = "weekly_report" /\ call.pc = "done" /\ StrptimeDateOk(Chars(call.start_date)))
    => LET start == StrptimeDate(Chars(call.start_date))
           good == Counted(call.fetched)
       IN  /\ Len(call.fetched) = WeekLength
           /\ \A i \in 1..WeekLength :
                 call.fetched[i].date = StrftimeDate(AddDays(start, i - 1))
           /\ ret.total_time = FormatDuration(CountedSeconds(call.fetched, WeekLength))
           /\ Len(ret.days) = Cardinality(good)
           /\ \A j \in 1..Len(ret.days) :
                 LET i == Nth(good, j) IN
                 /\ ret.days[j].date = call.fetched[i].date
                 /\ ret.days[j].total_time = FormatDuration(call.fetched[i].outcome.total_seconds)

\* a report over a week that runs into the next year, whose second day failed
\* and whose third and last day have entries
C18_Witness ==
    /\ call.op = "weekly_report" /\ call.pc = "done" /\ call.start_date = "2024-12-29"
    /\ "error" \in DOMAIN call.fetched[2].outcome
    /\ {3, WeekLength} \subseteq Counted(call.fetched)
    /\ ret.days[Len(ret.days)].date = <<"2", "0", "2", "5", "-", "0", "1", "-", "0", "4">>

-----------------------------------------------------------------------------
(* Claims about TimeCampClient.request, checked under SpecClient *)

\* the error kind of each failed request
KindOf(outcome) ==
    IF "failure" \in DOMAIN outcome THEN ToolError("Network error: " \o outcome.failure)
    ELSE IF outcome.status = 401 THEN ToolError("Invalid API token. Check TimeCamp settings")
    ELSE IF outcome.status = 404 THEN ToolError("Resource not found")
    ELSE IF outcome.status = 429 THEN ToolError("Rate limit exceeded. Wait 60 seconds")
    ELSE IF outcome.status \in 500..599 THEN ToolError("TimeCamp unavailable. Try again later")
    ELSE ToolError("API error: " \o ToString(outcome.status))

IsFailure(outcome) == "failure" \in DOMAIN outcome \/ outcome.status >= 400

-----------------------------------------------------------------------------
(* Claims about the requests of an invocation *)

\* C22: an invocation issues a request only by suspending on it, one request at
\* a time, and never a request it has issued before, whether that one failed
\* (rate limit, unavailable, timeout) or was answered.  Checked under Spec.
C22_RequestStep ==
    \A p \in Procs :
      IF inv'[p].pc = "sent" /\ inv[p].pc # "sent"
      THEN /\ inv'[p].req \notin inv[p].reqs
           /\ inv'[p].reqs = inv[p].reqs \cup {inv'[p].req}
      ELSE inv'[p].pc # "idle" => inv'[p].reqs = inv[p].reqs

C22_NoRetry == [][C22_RequestStep]_vars

\* start_timer has ended with the failure of its GET tasks, issued once, after
\* its POST timer was answered
C22_Witness ==
    \E p \in Procs :
      /\ inv[p].op = "start_timer" /\ inv[p].pc = "done"
      /\ inv[p].result = RequestFailed
      /\ inv[p].reqs = {"GET timer_running", "POST timer", "GET tasks"}

\* the check of start_timer invocation p has been answered: no timer is running
SawNoTimer(p) ==
    /\ inv[p].op = "start_timer" /\ inv[p].pc = "served" /\ inv[p].stage = "check"
    /\ inv[p].resp.ok
    /\ ~inv[p].resp.body.running

\* C23: a start_timer invocation whose check found no running timer issues POST
\* timer whatever the other invocation is doing, so both of two concurrent
\* invocations can issue it.  Checked under SpecTimer.
C23_NoLockStep ==
    \A p \in Procs :
      (SawNoTimer(p) /\ inv'[p] # inv[p])
        => inv'[p].pc = "sent" /\ inv'[p].req = "POST timer"

C23_BothStart == [][C23_NoLockStep]_vars

\* both invocations are start_timer calls whose check found no timer, and the
\* POST timer of both is under way while upstream still has no timer running
C23_Witness ==
    /\ upTimer = 0
    /\ \A p \in Procs :
         /\ inv[p].op = "start_timer"
         /\ inv[p].pc = "sent" /\ inv[p].req = "POST timer"

\* C24 as stated: when the GET timer_running check of start_timer fails, the
\* failure is ignored and start_timer goes on to issue POST timer.  Checked
\* under SpecTimer.
C24_CheckStep ==
    \A p \in Procs :
      (/\ inv[p].op = "start_timer" /\ inv[p].pc = "served" /\ inv[p].stage = "check"
       /\ ~inv[p].resp.ok
       /\ inv'[p] # inv[p])
        => inv'[p].pc = "sent" /\ inv'[p].req = "POST timer"

C24_CheckIgnored == [][C24_CheckStep]_vars

-----------------------------------------------------------------------------
(* Claims about the api token, checked under SpecToken *)

\* C26 as stated: a tool or resource called while the api token is absent ends,
\* before it suspends, with the missing-token error and without a request,
\* whatever the cache holds.
C26_CallStep ==
    \A p \in Procs :
      (inv[p].pc = "idle" /\ inv'[p].pc # "idle" /\ ~token)
        => /\ inv'[p].pc = "done"
           /\ inv'[p].result = MissingToken
           /\ inv'[p].reqs = {}

C26_MissingToken == [][C26_CallStep]_vars

-----------------------------------------------------------------------------
(* Claims about the lifetime of the cached values, checked under Spec *)

\* the time a value stored under key k is served for: TIMER_TTL for timer,
\* CACHE_TTL for projects, tasks and time-entries/{date}
ServedFor(k) == IF k = "timer" THEN TIMER_TTL ELSE CACHE_TTL

\* the key a resource reads first and the request it issues on a miss
FirstKey(i) ==
    IF i.op = "time_entries" THEN TimeEntriesKey(i.date) ELSE i.op

FirstRequest(i) ==
    IF i.op = "time_entries" THEN "GET time_entries" ELSE FetchRequest(i.op)

\* C25: every value a handler stores expires ServedFor(k) after the step that
\* stored it; a resource called while the value of its key has not expired is
\* served that value (timer, time entries) or issues no request for it (tasks,
\* projects), and one called at or after the expiry issues the upstream fetch.
C25_Step ==
    /\ \A k \in DOMAIN cache' :
          EntryOf(cache, k) # cache'[k] => cache'[k].expiry = now + ServedFor(k)
    /\ \A p \in Procs :
         (/\ inv[p].pc = "idle"
          /\ inv'[p].op \in {"timer", "time_entries", "tasks", "projects"})
         => LET i == inv'[p]
                k == FirstKey(i)
            IN  IF IsLive(cache, k, now)
                THEN /\ FirstRequest(i) \notin i.reqs
                     /\ i.op \in {"timer", "time_entries"}
                          => i.result = [ok |-> TRUE, value |-> cache[k].value]
                ELSE i.pc = "sent" /\ i.req = FirstRequest(i)

C25_Lifetimes == [][C25_Step]_vars

\* the timer status and the task list were stored at the same instant by a read
\* of today's time entries; TIMER_TTL later a read of the timer fetches again
\* while the task list is still live
C25_Witness ==
    /\ inv[1].op = "time_entries" /\ ReturnedOk(inv[1])
    /\ "GET timer_running" \in inv[1].reqs
    /\ inv[2].op = "timer" /\ inv[2].pc = "sent" /\ inv[2].req = "GET timer_running"
    /\ "timer" \notin DOMAIN cache
    /\ IsLive(cache, "tasks", now)
    /\ cache["tasks"].expiry = now - TIMER_TTL + CACHE_TTL

-----------------------------------------------------------------------------
(* Claims about the read-only handlers, checked under Spec *)

ReadOnlyOps == {"timer", "tasks", "projects", "time_entries", "daily_standup"}

GetRequests == {"GET timer_running", "GET tasks", "GET projects", "GET time_entries"}

\* the keys the read-throughs of invocation i store
ReadKeys(i) == {"timer", "tasks", "projects", TimeEntriesKey(i.date)}

\* C27: no step of a resource or prompt invocation appends to the change log,
\* removes a cache entry that has not expired or issues a POST or PUT; the
\* entries it writes are those of the keys its resource reads go through.
C27_ReadOnlyStep ==
    \A p \in Procs :
      (HandlerStep(p) /\ inv'[p].op \in ReadOnlyOps) =>
        /\ changes' = changes
        /\ \A k \in DOMAIN cache : IsLive(cache, k, now) => k \in DOMAIN cache'
        /\ inv'[p].reqs \subseteq GetRequests
        /\ \A k \in DOMAIN cache' :
              EntryOf(cache, k) # cache'[k] => k \in ReadKeys(inv'[p])

C27_ReadOnly == [][C27_ReadOnlyStep]_vars

\* the standup prompt returned its text for today after the change log got a
\* record and the cache a timer status, which are both still there
C27_Witness ==
    \E p \in Procs :
      /\ inv[p].op = "daily_standup" /\ ReturnedOk(inv[p])
      /\ inv[p].reqs # {}
      /\ Len(changes) = 1
      /\ IsLive(cache, "timer", now)
      /\ TimeEntriesKey(inv[p].date) \in DOMAIN cache

-----------------------------------------------------------------------------
(* Claims about clear(), checked under SpecClear *)

\* C28: when the last set / invalidate / clear on k was a clear, get(k) returns
\* (None, None, False), with or without etag, and the dict is empty until the
\* next set; when no record was appended since the last StateTracker.clear(),
\* the log is empty and get_changes_since returns the empty list.
C28_Cleared ==
    /\ (call.op = "get" /\ hist[call.key].state = "cleared") => ret = Absent
    /\ (\A k \in CacheKeys : hist[k].state = "cleared") => cache = EmptyCache
    /\ appended = 0 => changes = <<>>
    /\ (call.op = "get_changes_since" /\ appended = 0) => ret = <<>>

\* a get on a cleared key, presenting the etag of the value it held, at a time
\* the value would still be live
C28_Witness ==
    /\ call.op = "get" /\ call.etag # None
    /\ hist[call.key].state = "cleared"
    /\ now < CACHE_TTL
    /\ ret = Absent
    /\ changes = <<>>

-----------------------------------------------------------------------------
(* Claims about format_duration, checked under SpecSummary *)

\* the examples of format_duration's results
DurationExamples ==
    {<<0, "0m">>, <<60, "1m">>, <<90, "1m">>, <<3600, "1h 0m">>, <<7320, "2h 2m">>}

\* C29: format_duration(s) shows floor(s/3600) hours and floor((s mod 3600)/60)
\* minutes, as "<h>h <m>m" when there are hours and "<m>m" otherwise; the
\* seconds are dropped, never rounded up: 0 -> 0m, 60 -> 1m, 90 -> 1m,
\* 3600 -> 1h 0m, 7320 -> 2h 2m.
C29_Floors ==
    call.op = "format_duration" =>
      LET s == call.seconds
          h == CHOOSE n \in 0..(s + 1) : n * 3600 <= s /\ s < (n + 1) * 3600
          r == s - h * 3600
          mi == CHOOSE n \in 0..59 : n * 60 <= r /\ r < (n + 1) * 60
      IN  /\ ret.text = IF h > 0 THEN ToString(h) \o "h " \o ToString(mi) \o "m"
                        ELSE ToString(mi) \o "m"
          /\ \A e \in DurationExamples : s = e[1] => ret.text = e[2]

\* a duration whose left-over seconds are more than half a minute
C29_Witness ==
    /\ call.op = "format_duration" /\ call.seconds = 7199
    /\ ret.text = "1h 59m"

-----------------------------------------------------------------------------
(* Claims about the end of a mutating invocation *)

\* the upstream write of invocation i, whose response is being handled, has
\* succeeded: the response is the write's own, or that of a later fetch
WriteSucceeded(i) ==
    /\ i.op \in MutatingOps
    /\ i.pc = "served"
    /\ \/ i.stage = "write" /\ i.resp.ok
       \/ i.stage = "lookup"

\* C30: a step that ends an invocation of start_timer, stop_timer or
\* create_time_entry whose upstream write succeeded leaves none of the
\* invocation's keys in the cache and has appended a record to the change log,
\* also when the invocation ends with an exception.
C30_EndStep ==
    \A p \in Procs :
      (WriteSucceeded(inv[p]) /\ inv'[p].pc = "done") =>
        LET keys == InvalidatedKeys(inv[p], now) IN
        /\ \A n \in 1..Len(keys) : keys[n] \notin DOMAIN cache'
        /\ changes' # changes
        /\ Len(changes') >= 1

C30_InvalidatesAlways == [][C30_EndStep]_vars

-----------------------------------------------------------------------------
(* Claims about reads that overlap a mutation *)

\* the invocation of a mutating tool that has returned its response
Completed(i) == i.op \in MutatingOps /\ ReturnedOk(i)

\* C31: once a start_timer, stop_timer or create_time_entry invocation has
\* returned, a live cache entry under a key it invalidated holds what upstream
\* holds since its write, never a value fetched before the write: the timer
\* status says whether a timer runs, the summary of date D counts the entries
\* of D.  (The invocations of a run are the only writers of upstream.)
C31_NoStaleValue ==
    \A q \in Procs :
      Completed(inv[q]) =>
        /\ (inv[q].op \in {"start_timer", "stop_timer"} /\ IsLive(cache, "timer", now))
              => cache["timer"].value.is_running = (upTimer # 0)
        /\ (inv[q].op = "create_time_entry"
              /\ IsLive(cache, TimeEntriesKey(inv[q].date), now))
              => cache[TimeEntriesKey(inv[q].date)].value.entry_count = upEntries[inv[q].date]

-----------------------------------------------------------------------------
(* Claims about the order of write, invalidation and change record *)

\* the upstream write of each mutating tool and the type of its change record
WriteRequest(op) ==
    IF op = "start_timer" THEN "POST timer"
    ELSE IF op = "stop_timer" THEN "PUT timer" ELSE "POST time_entries"

ChangeType(op) ==
    IF op = "start_timer" THEN "timer_started"
    ELSE IF op = "stop_timer" THEN "timer_stopped" ELSE "time_entry_created"

\* C32: a step that appends a change record is a step of a mutating tool
\* invocation whose upstream write has been issued and answered with success
\* before the step, and at the end of the step none of the invocation's keys is
\* in the cache: the invalidation and the append happen without a suspension
\* between them, so no state has the record in the log and the keys not yet
\* invalidated.
C32_AppendStep ==
    changes' # changes =>
      \E p \in Procs :
        /\ HandlerStep(p)
        /\ WriteSucceeded(inv[p])
        /\ WriteRequest(inv[p].op) \in inv[p].reqs
        /\ LET keys == InvalidatedKeys(inv[p], now) IN
             \A n \in 1..Len(keys) : keys[n] \notin DOMAIN cache'
        /\ changes' = Append(changes, changes'[Len(changes')])
        /\ changes'[Len(changes')].type = ChangeType(inv[p].op)

C32_WriteInvalidateRecord == [][C32_AppendStep]_vars

\* start_timer has returned; the timer status and today's summary were live in
\* the cache when it was called and are gone, and its record is in the log
C32_Witness ==
    \E p \in Procs :
      /\ inv[p].op = "start_timer" /\ ReturnedOk(inv[p])
      /\ {"timer", TimeEntriesKey(Today(now))} \subseteq DOMAIN inv[p].pre
      /\ "timer" \notin DOMAIN cache
      /\ TimeEntriesKey(Today(now)) \notin DOMAIN cache
      /\ Len(changes) = 1 /\ changes[1].type = "timer_started"

-----------------------------------------------------------------------------
(* Claims about the change record of an invocation *)

\* C33: the step that ends an invocation of start_timer, stop_timer or
\* create_time_entry appends exactly one record, of the type of the tool, when
\* the invocation returns its response, and none when it ends with an error;
\* the earlier steps of the invocation append none.
C33_RecordStep ==
    \A p \in Procs :
      (HandlerStep(p) /\ inv'[p].op \in MutatingOps) =>
        IF ReturnedOk(inv'[p])
        THEN /\ Len(changes') = Len(changes) + 1
             /\ changes' = Append(changes, changes'[Len(changes')])
             /\ changes'[Len(changes')].type = ChangeType(inv'[p].op)
        ELSE changes' = changes

C33_OneRecord == [][C33_RecordStep]_vars

-----------------------------------------------------------------------------
(* Claims about polling the changes resource, checked under SpecPoll *)

\* how many of the records the client has kept are the n-th record appended
TimesSeen(n) == Cardinality({j \in 1..Len(ret.seen) : ret.seen[j].details.index = n})

\* C34: after each poll of a client that filters by the timestamp of its
\* previous poll, with fewer than max_changes records appended between any two
\* polls, every record appended so far has been kept exactly once.
C34_SeenOnce ==
    (call.op = "poll" /\ call.within) =>
       \A n \in 1..call.upto : TimesSeen(n) = 1

-----------------------------------------------------------------------------
(* Claims about the read-throughs *)

ResourceOps == {"timer", "time_entries", "tasks", "projects"}

\* the keys invocation i may read through, and the request that fetches each
ReadThroughKeys(i) ==
    {"timer", "tasks", "projects"} \cup
    (IF i.op = "time_entries" THEN {TimeEntriesKey(i.date)} ELSE {})

RequestOf(k) ==
    IF k \in {"timer", "tasks", "projects"} THEN FetchRequest(k) ELSE "GET time_entries"

\* the entry cache.set(k, value) makes at clock reading t
Stored(k, value, t) == [value |-> value, expiry |-> t + TtlOf(k), etag |-> Etag(value)]

\* C35: in every step of a resource invocation, a request for a key is issued
\* only when the cache holds no live entry for the key; a timer or time-entries
\* resource called while its entry is live returns the cached value without any
\* request; the step that handles the answer to the fetch of projects, tasks or
\* timer stores the value built from it under the key, and a timer or
\* time-entries resource that returns after fetching returns the value that the
\* same step has stored under its key.
C35_ReadThroughStep ==
    \A p \in Procs :
      (HandlerStep(p) /\ inv'[p].op \in ResourceOps) =>
        LET i == inv[p]
            j == inv'[p]
            key == FirstKey(j)
        IN  /\ \A k \in ReadThroughKeys(j) :
                  (j.pc = "sent" /\ j.req = RequestOf(k)) => ~IsLive(cache, k, now)
            /\ (i.pc = "idle" /\ j.op \in {"timer", "time_entries"} /\ IsLive(cache, key, now))
                  => /\ j.result = [ok |-> TRUE, value |-> cache[key].value]
                     /\ j.reqs = {}
                     /\ cache'[key] = cache[key]
            /\ (i.pc = "idle" /\ ~IsLive(cache, key, now))
                  => j.pc = "sent" /\ j.req = RequestOf(key) /\ j.reqs = {RequestOf(key)}
            /\ (/\ i.pc = "served" /\ i.stage = "lookup" /\ i.resp.ok
                /\ ~(Head(i.todo) = "timer" /\ i.resp.body.running
                       /\ ElapsedRaises(i.resp.body)))
                  => LET k == Head(i.todo) IN
                     /\ k \in DOMAIN cache'
                     /\ cache'[k] = Stored(k, ValueOf(k, i.resp.body), now)
            /\ (i.pc = "served" /\ ReturnedOk(j) /\ j.op \in {"timer", "time_entries"})
                  => /\ key \in DOMAIN cache'
                     /\ cache'[key] = Stored(key, j.result.value, now)
                     /\ RequestOf(key) \in j.reqs

FetchedKey(i) ==
    IF i.req = "GET time_entries" THEN TimeEntriesKey(i.date)
    ELSE IF i.req = "GET timer_running" THEN "timer"
    ELSE IF i.req = "GET tasks" THEN "tasks" ELSE "projects"

\* C36: two resource invocations never both have a fetch of the same key under
\* way: a read that misses while the fetch of another read of the key has not
\* been answered issues no request of its own.
C36_SingleFetch ==
    \A p, q \in Procs :
      (/\ p # q
       /\ inv[p].op \in ResourceOps /\ inv[q].op \in ResourceOps
       /\ inv[p].pc = "sent" /\ inv[q].pc = "sent")
      => FetchedKey(inv[p]) # FetchedKey(inv[q])

\* C37: the step that handles a failed fetch of a read-through (of the projects,
\* the tasks, the timer status or the time entries) leaves the whole cache as it
\* was and ends the invocation; a resource invocation ends with the error.
C37_FailedFetchStep ==
    \A p \in Procs :
      (/\ HandlerStep(p)
       /\ inv[p].pc = "served" /\ inv[p].stage \in {"lookup", "entries"}
       /\ ~inv[p].resp.ok)
      => /\ cache' = cache
         /\ inv'[p].pc = "done"
         /\ inv'[p].op \in ResourceOps => inv'[p].result = RequestFailed

C37_FailedFetch == [][C37_FailedFetchStep]_vars

\* a read of the tasks resource has failed on its fetch, the cache holds no
\* tasks entry, and the other read of the resource has issued a fetch
C37_Witness ==
    \E p, q \in Procs :
      /\ inv[p].op = "tasks" /\ Failed(inv[p]) /\ inv[p].reqs = {"GET tasks"}
      /\ "tasks" \notin DOMAIN cache
      /\ inv[q].op = "tasks" /\ inv[q].pc = "sent" /\ inv[q].req = "GET tasks"

-----------------------------------------------------------------------------
(* Claims about the request of create_time_entry, checked under SpecEntry *)

\* C38: every POST time_entries under way carries a start time before its end
\* time and a duration of 60 seconds per minute between them: a positive
\* multiple of 60.
C38_PositiveDuration ==
    \A p \in Procs :
      (inv[p].pc = "sent" /\ inv[p].req = "POST time_entries") =>
        LET s == StrptimeTime(Chars(inv[p].start))
            e == StrptimeTime(Chars(inv[p].finish))
        IN  /\ s < e
            /\ inv[p].loc.duration = 60 * (e - s)
            /\ inv[p].loc.duration > 0
            /\ inv[p].loc.duration % 60 = 0

-----------------------------------------------------------------------------
(* Claims about the two caches, checked under SpecBoth *)

\* C39: after any sequence of set, get without etag and clear made on both
\* caches at the same clock readings, the two hold entries for the same keys,
\* with the same values and expiries, and each get returned the same value from
\* both.
C39_Refines ==
    /\ DOMAIN cache = DOMAIN plain
    /\ \A k \in DOMAIN cache :
          cache[k].value = plain[k].value /\ cache[k].expiry = plain[k].expiry
    /\ call.op = "get" => ret.etagged.value = ret.plain

\* a get at the last clock reading that both caches answered with the stored
\* value, the only entry either of them holds
C39_Witness ==
    /\ call.op = "get"
    /\ ret.plain = [v |-> 1] /\ ret.etagged.value = [v |-> 1]
    /\ now = MaxTime
    /\ DOMAIN plain = {call.key}

====
